---- MODULE Spec2Model ----
(***************************************************************************)
(* nzb-repair: the persistent job queue (internal/queue/queue.go), the     *)
(* watch-mode supervisor's worker loop (internal/app/app.go) and the       *)
(* repair pipeline's control flow (internal/repairnzb/repair_nzb.go).      *)
(*                                                                         *)
(* The jobs table is a sequence of rows; a row's id is its index (SQLite   *)
(* AUTOINCREMENT, rows are never deleted).  The column updated_at is       *)
(* written by every statement and read by none: the rows leave it out.     *)
(* A file path is a pair <<directory, file name>>; the disk maps a location *)
(* to the identity of the file stored there (the path the file was created *)
(* at) or NoFile.  A relative path is the sequence of its elements between *)
(* separators; a rooted path starts with the element "/".                  *)
(***************************************************************************)
EXTENDS Integers, Sequences, FiniteSets, TLC

VARIABLES
    jobs,       \* the jobs table: Seq(row), id = index
    disk,       \* location -> identity of the file there, or NoFile
    last,       \* the queue operation that returned last: its name, the row it addressed
                \* (0: none), AddJob's relative path, the row's status before, the result
    mu,         \* holder of Queue.mu, or NoOne
    cpc,        \* per caller: position inside a step-wise GetNextJob
    csel,       \* per caller: row id scanned by the SELECT of its transaction
    handed,     \* per row id: callers GetNextJob returned the row to since it was last set pending
    w,          \* the repair worker of RunWatcher: its position in the loop body, the job it
                \* holds, and what it did for that job
    boots,      \* how many times RunWatcher has started on this database
    cf,         \* one load of the configuration: the file read and the Config returned
    dl,         \* one call of downloadWorker: its segment tasks, the channel, the file written
    sv,         \* one run of RunWatcher: its two tasks, the pools, the queue handle, its result
    rbs,        \* one file of replaceBrokenSegments: its segments, the articles built for them
    run,        \* one call of RepairNzb: its position, its manifest, what it did so far
    wt,         \* the watcher: the directory tree, the events not yet handled, the scans
    p2          \* one call of Par2CmdExecutor.Repair: the directory, the binary's exit, the result

vars == <<jobs, disk, last, mu, cpc, csel, handed, w, boots, sv, rbs, cf, dl, run, wt, p2>>

----------------------------------------------------------------------------
(* Bounds of the model *)

MaxRetryCount == 2
MaxNow == 1

\* cfg.MaxRetries, the max_retries of the configuration
MaxRetries == 1

\* starts of RunWatcher on one database
MaxBoots == 2

(* Values *)

StatusPending == "pending"
StatusProcessing == "processing"
StatusCompleted == "completed"
StatusFailed == "failed"
StatusMoved == "moved"
JobStatus == {StatusPending, StatusProcessing, StatusCompleted, StatusFailed, StatusMoved}

NULL == "NULL"
NoFile == <<>>
NoOne == "none"
ErrNoRows == 0

Times == 0..MaxNow
WatchDir == "/w"
SubDir == "/w/sub"
BrokenFolder == "/broken"
Paths == {<<WatchDir, "a.nzb">>, <<SubDir, "a.nzb">>}
RelPaths == {<<"a.nzb">>, <<"sub", "a.nzb">>}
Messages == {"", "boom"}
Locations == Paths \cup {<<BrokenFolder, p[2]>> : p \in Paths}
Callers == {"c1", "c2"}

\* (path, relative path) pairs and (status, message) pairs the client passes
AddInputs ==
    {<<<<WatchDir, "a.nzb">>, <<"a.nzb">>>>,
     <<<<SubDir, "a.nzb">>, <<"sub", "a.nzb">>>>,
     <<<<SubDir, "a.nzb">>, <<"a.nzb">>>>}
StatusInputs == {<<StatusFailed, "boom">>, <<StatusCompleted, "">>, <<StatusMoved, "">>}

\* the worker between two jobs
NoPath == <<>>
WorkerIdle ==
    [pc |-> "tick", job |-> 0, rel |-> <<>>, out |-> NoPath, ran |-> FALSE,
     err |-> "", par2 |-> -1, upd |-> 0, set |-> <<>>]

\* no call of RepairNzb, no watcher, no call of the par2 driver
NoRun == [pc |-> "none"]
NoWatch == [pc |-> "none"]
NoCall == [pc |-> "none"]
NoConfig == [pc |-> "none"]
NoDownload == [pc |-> "none"]
NoSupervisor == [pc |-> "none"]
NoUpload == [pc |-> "none"]

----------------------------------------------------------------------------
(* SQL statements of the queue, as functions of the table *)

Ids(t) == 1..Len(t)

\* the SELECT of AddJob finding no row, whatever the table holds
RowOfMissing(t, p) == 0

\* SELECT id, status FROM jobs WHERE filepath = ?   (0: sql.ErrNoRows)
RowOf(t, p) ==
    IF \E id \in Ids(t) : t[id].filepath = p
    THEN CHOOSE id \in Ids(t) : t[id].filepath = p
    ELSE 0

\* INSERT INTO jobs (filepath, relative_path, status, created_at, updated_at)
InsertJob(t, p, r, now) ==
    Append(t, [filepath |-> p, relative_path |-> r, status |-> StatusPending,
               error_msg |-> NULL, retry_count |-> 0,
               created_at |-> now])

\* ResetJob rewriting the whole row, as INSERT OR REPLACE would
ResetJobLosingRetries(t, p, r) ==
    [id \in Ids(t) |->
        IF t[id].filepath = p
        THEN [t[id] EXCEPT !.status = StatusPending, !.error_msg = NULL,
                           !.relative_path = r, !.retry_count = 0]
        ELSE t[id]]

\* UPDATE jobs SET status = pending, error_msg = NULL, relative_path = ? WHERE filepath = ?
ResetJob(t, p, r) ==
    [id \in Ids(t) |->
        IF t[id].filepath = p
        THEN [t[id] EXCEPT !.status = StatusPending, !.error_msg = NULL,
                           !.relative_path = r]
        ELSE t[id]]

\* AddJob resetting the row whatever its status
AddJobTableAlwaysReset(t, p, r, now) ==
    IF RowOf(t, p) = 0 THEN InsertJob(t, p, r, now) ELSE ResetJob(t, p, r)

\* The table AddJob commits
AddJobTable(t, p, r, now) ==
    IF RowOf(t, p) = 0 THEN InsertJob(t, p, r, now)
    ELSE IF t[RowOf(t, p)].status \in {StatusFailed, StatusCompleted}
         THEN ResetJob(t, p, r)
         ELSE t

\* The SELECT of GetNextJob without its ORDER BY
AnyPending(t) == {id \in Ids(t) : t[id].status = StatusPending}

\* SELECT ... WHERE status = pending ORDER BY created_at ASC LIMIT 1: the rows
\* the statement may return (rows of equal created_at are in no defined order)
OldestPending(t) ==
    {id \in Ids(t) :
        /\ t[id].status = StatusPending
        /\ \A o \in Ids(t) : t[o].status = StatusPending => t[id].created_at <= t[o].created_at}

\* UPDATE jobs SET status = processing WHERE id = ?
MarkProcessing(t, id) ==
    [i \in Ids(t) |->
        IF i = id THEN [t[i] EXCEPT !.status = StatusProcessing]
        ELSE t[i]]

\* errMsg of UpdateJobStatus: "" is stored as NULL
NullString(msg) == IF msg = "" THEN NULL ELSE msg

\* UpdateJobStatus counting a retry whatever the status
UpdateJobStatusTableAlwaysCounts(t, id, status, msg) ==
    [i \in Ids(t) |->
        IF i = id
        THEN [t[i] EXCEPT !.status = status, !.error_msg = NullString(msg),
                          !.retry_count = @ + 1]
        ELSE t[i]]

\* UPDATE jobs SET status = ?, error_msg = ? [, retry_count = retry_count + 1] WHERE id = ?
UpdateJobStatusTable(t, id, status, msg) ==
    [i \in Ids(t) |->
        IF i = id
        THEN [t[i] EXCEPT !.status = status, !.error_msg = NullString(msg),
                          !.retry_count = IF status = StatusFailed THEN @ + 1 ELSE @]
        ELSE t[i]]

\* a startup that leaves the table as the crashed run left it
CleanupTableSkipped(t) == t

\* CleanupProcessingJobs doing what its comment says: processing rows become failed
CleanupTableToFailed(t) ==
    [i \in Ids(t) |->
        IF t[i].status = StatusProcessing
        THEN [t[i] EXCEPT !.status = StatusFailed]
        ELSE t[i]]

\* UPDATE jobs SET status = pending WHERE status = processing
CleanupTable(t) ==
    [i \in Ids(t) |->
        IF t[i].status = StatusProcessing
        THEN [t[i] EXCEPT !.status = StatusPending]
        ELSE t[i]]

\* result.RowsAffected() of that statement
CleanupRowsAffected(t) == Cardinality({i \in Ids(t) : t[i].status = StatusProcessing})

----------------------------------------------------------------------------
(* The file system, as far as MoveFailedFiles uses it *)

\* _, filename := filepath.Split(job.FilePath)
FileName(p) == p[2]

\* destPath := filepath.Join(brokenFolder, filename)
DestPath(brokenFolder, p) == <<brokenFolder, FileName(p)>>

\* os.Rename(src, dst) fails when src does not exist
RenameFails(d, src) == d[src] = NoFile

\* os.Rename(src, dst): dst is replaced when it exists
Rename(d, src, dst) ==
    IF src = dst THEN d
    ELSE [d EXCEPT ![dst] = d[src], ![src] = NoFile]

\* the SELECT of the sweep without its test of the status
AnyOverMax(t, maxRetries) ==
    {id \in Ids(t) : t[id].retry_count >= maxRetries}

\* SELECT id, filepath, relative_path FROM jobs WHERE status = failed AND retry_count >= ?
FailedOverMax(t, maxRetries) ==
    {id \in Ids(t) : t[id].status = StatusFailed /\ t[id].retry_count >= maxRetries}

\* UPDATE jobs SET status = 'moved' WHERE id = ?
MarkMoved(t, id) ==
    [i \in Ids(t) |->
        IF i = id THEN [t[i] EXCEPT !.status = StatusMoved]
        ELSE t[i]]

\* One iteration of the loop over the result rows, on the state [jobs, disk,
\* count, fail]: fail holds the rows whose UPDATE returns an error
MoveOne(s, id, brokenFolder) ==
    LET p == s.jobs[id].filepath IN
    IF FileName(p) = "" THEN s
    ELSE IF RenameFails(s.disk, p) THEN s
    ELSE IF id \in s.fail
         THEN [s EXCEPT !.disk = Rename(s.disk, p, DestPath(brokenFolder, p))]
    ELSE [s EXCEPT !.jobs = MarkMoved(s.jobs, id),
                   !.disk = Rename(s.disk, p, DestPath(brokenFolder, p)),
                   !.count = s.count + 1]

\* for rows.Next() { ... } over the result rows in the order ord
RECURSIVE MoveLoop(_, _, _)
MoveLoop(s, ord, brokenFolder) ==
    IF ord = <<>> THEN s
    ELSE MoveLoop(MoveOne(s, Head(ord), brokenFolder), Tail(ord), brokenFolder)

\* The orders in which a query without ORDER BY may return the rows of ids
Orders(ids) ==
    {o \in [1..Cardinality(ids) -> ids] : \A i, j \in DOMAIN o : i # j => o[i] # o[j]}

----------------------------------------------------------------------------
(* Queue operations.  q.mu serializes AddJob, GetNextJob, UpdateJobStatus   *)
(* and MoveFailedFiles; CleanupProcessingJobs takes no lock and is one SQL  *)
(* statement, which the database runs only while no transaction is open.    *)

\* GetNextJob without q.mu
MuIgnored == TRUE

\* q.mu.Lock() succeeds
MuFree == mu = NoOne

\* a transaction begun by GetNextJob is still open
TxOpen == \E c \in Callers : cpc[c] = "selected"

StatusAt(t, id) == IF id = 0 THEN "absent" ELSE t[id].status

AddJob(p, r, now) ==
    /\ MuFree
    /\ jobs' = AddJobTable(jobs, p, r, now)
    /\ last' = [op |-> "AddJob", id |-> RowOf(jobs, p), rel |-> r,
                pre |-> StatusAt(jobs, RowOf(jobs, p)), ret |-> 0]
    /\ UNCHANGED <<disk, mu, cpc, csel>>

\* q.mu.Lock() of GetNextJob returns, and the caller has not begun its
\* transaction yet
GetNextJobLock(c) ==
    /\ cpc[c] = "idle"
    /\ MuFree
    /\ mu' = c
    /\ cpc' = [cpc EXCEPT ![c] = "locked"]
    /\ UNCHANGED <<jobs, disk, last, csel>>

\* GetNextJob up to the scan of the SELECT: lock, begin, query
GetNextJobSelect(c) ==
    /\ \/ cpc[c] = "idle" /\ MuFree
       \/ cpc[c] = "locked"
    /\ IF OldestPending(jobs) = {}
       THEN /\ last' = [op |-> "GetNextJob", id |-> 0, rel |-> <<>>,
                         pre |-> "absent", ret |-> ErrNoRows]
            /\ mu' = NoOne
            /\ cpc' = [cpc EXCEPT ![c] = "idle"]
            /\ UNCHANGED <<jobs, disk, csel>>
       ELSE /\ \E id \in OldestPending(jobs) : csel' = [csel EXCEPT ![c] = id]
            /\ mu' = c
            /\ cpc' = [cpc EXCEPT ![c] = "selected"]
            /\ UNCHANGED <<jobs, disk, last>>

\* GetNextJob from the UPDATE on: update, commit, unlock, return the row
GetNextJobUpdate(c) ==
    /\ cpc[c] = "selected"
    /\ jobs' = MarkProcessing(jobs, csel[c])
    /\ last' = [op |-> "GetNextJob", id |-> csel[c], rel |-> <<>>,
                pre |-> StatusAt(jobs, csel[c]), ret |-> csel[c]]
    /\ mu' = NoOne
    /\ cpc' = [cpc EXCEPT ![c] = "idle"]
    /\ csel' = [csel EXCEPT ![c] = 0]
    /\ UNCHANGED disk

UpdateJobStatus(id, status, msg) ==
    /\ MuFree
    /\ id \in Ids(jobs)
    /\ status = StatusFailed => jobs[id].retry_count < MaxRetryCount
    /\ jobs' = UpdateJobStatusTable(jobs, id, status, msg)
    /\ last' = [op |-> "UpdateJobStatus", id |-> id, rel |-> <<>>,
                pre |-> StatusAt(jobs, id), ret |-> 0]
    /\ UNCHANGED <<disk, mu, cpc, csel>>

CleanupProcessingJobs ==
    /\ ~TxOpen
    /\ jobs' = CleanupTable(jobs)
    /\ last' = [op |-> "CleanupProcessingJobs", id |-> 0, rel |-> <<>>,
                pre |-> "absent", ret |-> CleanupRowsAffected(jobs)]
    /\ UNCHANGED <<disk, mu, cpc, csel>>

MoveFailedFiles(maxRetries, brokenFolder) ==
    /\ MuFree
    /\ \E ord \in Orders(FailedOverMax(jobs, maxRetries)),
          fail \in SUBSET FailedOverMax(jobs, maxRetries) :
          LET s == MoveLoop([jobs |-> jobs, disk |-> disk, count |-> 0, fail |-> fail],
                            ord, brokenFolder) IN
          /\ jobs' = s.jobs
          /\ disk' = s.disk
          /\ last' = [op |-> "MoveFailedFiles", id |-> 0, rel |-> <<>>,
                      pre |-> "absent", ret |-> s.count]
    /\ UNCHANGED <<mu, cpc, csel>>

----------------------------------------------------------------------------
(* The queue driven through its API by one client *)

\* NewQueue on a fresh store; every file the client will name exists
InitStore ==
    /\ jobs = <<>>
    /\ disk = [l \in Locations |-> IF l \in Paths THEN l ELSE NoFile]
    /\ last = [op |-> "NewQueue", id |-> 0, rel |-> <<>>, pre |-> "absent", ret |-> 0]
    /\ mu = NoOne
    /\ cpc = [c \in Callers |-> "idle"]
    /\ csel = [c \in Callers |-> 0]
    /\ handed = <<>>
    /\ w = WorkerIdle

\* the queue alone, in a process that started once
InitQueue ==
    /\ InitStore
    /\ boots = 1
    /\ sv = NoSupervisor
    /\ rbs = NoUpload
    /\ cf = NoConfig
    /\ dl = NoDownload
    /\ run = NoRun
    /\ wt = NoWatch
    /\ p2 = NoCall

NextQueue ==
    \/ \E in \in AddInputs, now \in Times : AddJob(in[1], in[2], now) /\ UNCHANGED <<handed, w, boots, sv, rbs, cf, dl, run, wt, p2>>
    \/ GetNextJobSelect("c1") /\ UNCHANGED <<handed, w, boots, sv, rbs, cf, dl, run, wt, p2>>
    \/ GetNextJobUpdate("c1") /\ UNCHANGED <<handed, w, boots, sv, rbs, cf, dl, run, wt, p2>>
    \/ \E id \in 1..Cardinality(Paths), in \in StatusInputs :
          UpdateJobStatus(id, in[1], in[2]) /\ UNCHANGED <<handed, w, boots, sv, rbs, cf, dl, run, wt, p2>>
    \/ CleanupProcessingJobs /\ UNCHANGED <<handed, w, boots, sv, rbs, cf, dl, run, wt, p2>>

SpecQueue == InitQueue /\ [][NextQueue]_vars

----------------------------------------------------------------------------
(* The sweep of failed files, on a queue whose jobs fail and are re-added *)

NextMove ==
    \/ \E p \in Paths : AddJob(p, <<FileName(p)>>, 0) /\ UNCHANGED <<handed, w, boots, sv, rbs, cf, dl, run, wt, p2>>
    \/ GetNextJobSelect("c1") /\ UNCHANGED <<handed, w, boots, sv, rbs, cf, dl, run, wt, p2>>
    \/ GetNextJobUpdate("c1") /\ UNCHANGED <<handed, w, boots, sv, rbs, cf, dl, run, wt, p2>>
    \/ \E id \in 1..Cardinality(Paths) :
          UpdateJobStatus(id, StatusFailed, "boom") /\ UNCHANGED <<handed, w, boots, sv, rbs, cf, dl, run, wt, p2>>
    \/ \E id \in 1..Cardinality(Paths) :
          UpdateJobStatus(id, StatusCompleted, "") /\ UNCHANGED <<handed, w, boots, sv, rbs, cf, dl, run, wt, p2>>
    \/ \E maxRetries \in 1..MaxRetryCount :
          MoveFailedFiles(maxRetries, BrokenFolder) /\ UNCHANGED <<handed, w, boots, sv, rbs, cf, dl, run, wt, p2>>

SpecMove == InitQueue /\ [][NextMove]_vars

\* every operation of the queue, in any order
NextOps ==
    \/ NextMove
    \/ CleanupProcessingJobs /\ UNCHANGED <<handed, w, boots, sv, rbs, cf, dl, run, wt, p2>>

SpecOps == InitQueue /\ [][NextOps]_vars

----------------------------------------------------------------------------
(* Two workers calling GetNextJob concurrently on one Queue, while jobs are *)
(* added, finished and re-added                                             *)

\* handed after the step: a row set to pending starts over, a row returned
\* by a GetNextJob call records the caller
HandedNext ==
    [i \in Ids(jobs') |->
        LET got == {c \in Callers : cpc[c] = "selected" /\ cpc'[c] = "idle" /\ csel[c] = i}
            old == IF i \notin Ids(jobs) THEN <<>>
                   ELSE IF jobs'[i].status = StatusPending /\ jobs[i].status # StatusPending
                        THEN <<>>
                        ELSE handed[i]
        IN  IF got = {} THEN old ELSE Append(old, CHOOSE c \in got : TRUE)]

\* the caller that was handed row id reports the outcome of its work
ReportOutcome(id, status, msg) ==
    /\ id \in Ids(jobs)
    /\ jobs[id].status = StatusProcessing
    /\ UpdateJobStatus(id, status, msg)

NextConc ==
    \/ \E p \in Paths, now \in Times :
          AddJob(p, <<FileName(p)>>, now) /\ handed' = HandedNext /\ UNCHANGED <<w, boots, sv, rbs, cf, dl, run, wt, p2>>
    \/ \E c \in Callers : GetNextJobSelect(c) /\ handed' = HandedNext /\ UNCHANGED <<w, boots, sv, rbs, cf, dl, run, wt, p2>>
    \/ \E c \in Callers : GetNextJobUpdate(c) /\ handed' = HandedNext /\ UNCHANGED <<w, boots, sv, rbs, cf, dl, run, wt, p2>>
    \/ \E id \in 1..Cardinality(Paths) :
          ReportOutcome(id, StatusFailed, "boom") /\ handed' = HandedNext /\ UNCHANGED <<w, boots, sv, rbs, cf, dl, run, wt, p2>>
    \/ \E id \in 1..Cardinality(Paths) :
          ReportOutcome(id, StatusCompleted, "") /\ handed' = HandedNext /\ UNCHANGED <<w, boots, sv, rbs, cf, dl, run, wt, p2>>
    \/ CleanupProcessingJobs /\ handed' = HandedNext /\ UNCHANGED <<w, boots, sv, rbs, cf, dl, run, wt, p2>>

SpecConc == InitQueue /\ [][NextConc]_vars

\* the same callers, with the lock of GetNextJob as a step of its own
NextLock ==
    \/ NextConc
    \/ \E c \in Callers :
          GetNextJobLock(c) /\ UNCHANGED <<handed, w, boots, sv, rbs, cf, dl, run, wt, p2>>

SpecLock == InitQueue /\ [][NextLock]_vars

----------------------------------------------------------------------------
(* The repair worker of RunWatcher: one job at a time, from GetNextJob to   *)
(* the update of the job's status                                           *)

OutputBaseDir == <<"/", "out">>

\* element names whose text starts with the two characters ".."
DotDotPrefixed == {"..", "..a"}

\* filepath.IsAbs
IsAbs(p) == p # <<>> /\ p[1] = "/"

\* strings.HasPrefix(p, "..")
HasPrefixDotDot(p) == p # <<>> /\ p[1] \in DotDotPrefixed

\* filepath.Clean on the elements after the root: empty and "." elements
\* go, ".." removes the element before it, a leading ".." stays unless rooted
RECURSIVE CleanElems(_, _, _)
CleanElems(rooted, out, rest) ==
    IF rest = <<>> THEN out
    ELSE LET e == Head(rest) IN
         IF e \in {"", "."} THEN CleanElems(rooted, out, Tail(rest))
         ELSE IF e = ".."
              THEN IF out # <<>> /\ out[Len(out)] # ".."
                   THEN CleanElems(rooted, SubSeq(out, 1, Len(out) - 1), Tail(rest))
                   ELSE IF rooted THEN CleanElems(rooted, out, Tail(rest))
                        ELSE CleanElems(rooted, Append(out, e), Tail(rest))
              ELSE CleanElems(rooted, Append(out, e), Tail(rest))

\* filepath.Clean: the empty path cleans to "."
Clean(p) ==
    LET body == CleanElems(IsAbs(p), <<>>, IF IsAbs(p) THEN Tail(p) ELSE p) IN
    IF IsAbs(p) THEN <<"/">> \o body
    ELSE IF body = <<>> THEN <<".">> ELSE body

\* filepath.Join(base, rel)
Join(base, rel) == Clean(base \o rel)

\* the test of calculateJobOutputPath accepting everything but a leading ".."
InvalidOnlyDotDot(clean) == HasPrefixDotDot(clean)

\* the test of calculateJobOutputPath on the cleaned relative path
InvalidRelativePath(clean) ==
    HasPrefixDotDot(clean) \/ clean = <<".">> \/ clean = <<>> \/ IsAbs(clean)

\* calculateJobOutputPath without its call of UpdateJobStatus: the path and the error
calculateJobOutputPath(rel, mkdirOk) ==
    LET cleanRelativePath == Clean(rel) IN
    IF InvalidRelativePath(cleanRelativePath)
    THEN [path |-> NoPath, err |-> "invalid relative path calculated"]
    ELSE IF ~mkdirOk
         THEN [path |-> NoPath, err |-> "failed to create output subdirectory"]
         ELSE [path |-> Join(OutputBaseDir, cleanRelativePath), err |-> ""]

\* What one run of RepairNzb meets: the operation that fails if it is reached,
\* whether the NZB lists par2 files and other files, whether a segment was
\* missing, where the context is cancelled, and the exit code of par2
Par2ExitCodes == 0..8
Faults == {"none", "open", "parse", "mkdir tmp", "upload", "create"}
CancelPoints == {"never", "download", "par2 files", "upload"}
Envs ==
    [fault : Faults, hasPar : BOOLEAN, hasRest : BOOLEAN, broken : BOOLEAN,
     cancel : CancelPoints, par2 : Par2ExitCodes]

\* RepairNzb reaches par2Executor.Repair
ReachesPar2(env) ==
    /\ env.fault \notin {"open", "parse", "mkdir tmp"}
    /\ env.hasPar /\ env.hasRest /\ env.broken
    /\ env.cancel \notin {"download", "par2 files"}

\* Par2CmdExecutor.Repair: every exit code but 0 is an error
Par2Repair(code) == IF code = 0 THEN "" ELSE "par2 exited with code"

\* RepairNzb: the error it returns, "" for nil
RepairNzb(env) ==
    IF env.fault = "open" THEN "open failed"
    ELSE IF env.fault = "parse" THEN "parse failed"
    ELSE IF ~env.hasPar THEN ""
    ELSE IF ~env.hasRest THEN ""
    ELSE IF env.fault = "mkdir tmp" THEN "mkdir failed"
    ELSE IF env.cancel = "download" THEN ""
    ELSE IF ~env.broken THEN ""
    ELSE IF env.cancel = "par2 files" THEN ""
    ELSE \* the error of Par2Repair(env.par2) is logged and dropped
         IF env.cancel = "upload" THEN ""
         ELSE IF env.fault = "upload" THEN "upload failed"
         ELSE IF env.fault = "create" THEN "create failed"
         ELSE ""

\* what a run of RepairNzb can end with: the error returned and the exit code
\* of par2 in that run (-1: par2 was not run)
RepairOutcomes ==
    {<<RepairNzb(env), IF ReachesPar2(env) THEN env.par2 ELSE -1>> : env \in Envs}

\* the worker reporting every job completed
ReportArgsAlwaysCompleted(repairErr) == <<StatusCompleted, "">>

\* the arguments of the worker's UpdateJobStatus after RepairNzb
ReportArgs(repairErr) ==
    IF repairErr # "" THEN <<StatusFailed, repairErr>> ELSE <<StatusCompleted, "">>

\* the worker back at the top of its loop after UpdateJobStatus(job, args): the
\* locals of the iteration are gone, what remains is the record of the job done
BackToTick(args) ==
    [WorkerIdle EXCEPT !.job = w.job, !.ran = w.ran, !.err = w.err,
                       !.upd = w.upd + 1, !.set = args]

\* case <-workerTicker.C: job, err := dbQueue.GetNextJob(), up to its SELECT
WorkerAsk ==
    /\ w.pc = "tick"
    /\ GetNextJobSelect("c1")
    /\ w' = WorkerIdle

\* GetNextJob returns the job
WorkerGot ==
    /\ w.pc = "tick"
    /\ GetNextJobUpdate("c1")
    /\ w' = [WorkerIdle EXCEPT !.pc = "path", !.job = csel["c1"],
                               !.rel = jobs[csel["c1"]].relative_path]

\* outputFilePath, pathErr := calculateJobOutputPath(...); on an error the
\* job is marked failed there and the loop continues
WorkerPath ==
    /\ w.pc = "path"
    /\ \E mkdirOk \in BOOLEAN :
          LET r == calculateJobOutputPath(w.rel, mkdirOk) IN
          IF r.err # ""
          THEN /\ UpdateJobStatus(w.job, StatusFailed, r.err)
               /\ w' = BackToTick(<<StatusFailed, r.err>>)
          ELSE /\ w' = [w EXCEPT !.pc = "repair", !.out = r.path]
               /\ UNCHANGED <<jobs, disk, last, mu, cpc, csel>>

\* repairErr := repairnzb.RepairNzb(...)
WorkerRepair ==
    /\ w.pc = "repair"
    /\ \E o \in RepairOutcomes :
          w' = [w EXCEPT !.pc = "report", !.ran = TRUE, !.err = o[1], !.par2 = o[2]]
    /\ UNCHANGED <<jobs, disk, last, mu, cpc, csel>>

\* WorkerReport without its UpdateJobStatus
WorkerReportNoUpdate ==
    /\ w.pc = "report"
    /\ w' = BackToTick(ReportArgs(w.err))
    /\ UNCHANGED <<jobs, disk, last, mu, cpc, csel>>

\* if repairErr != nil { UpdateJobStatus(failed, errMsg) } else { UpdateJobStatus(completed, "") }
WorkerReport ==
    /\ w.pc = "report"
    /\ UpdateJobStatus(w.job, ReportArgs(w.err)[1], ReportArgs(w.err)[2])
    /\ w' = BackToTick(ReportArgs(w.err))

\* (file path, relative path) pairs a client of Queuer.AddJob enqueues
EnqueueInputs ==
    {<<<<WatchDir, "a.nzb">>, r>> :
        r \in {<<"a.nzb">>, <<>>, <<".">>, <<"/", "a.nzb">>, <<"..", "a.nzb">>}}
    \cup
    {<<<<SubDir, "a.nzb">>, r>> :
        r \in {<<"sub", "a.nzb">>, <<"..a", "..", "a.nzb">>, <<"..a", "a.nzb">>,
               <<"sub", "..", "..", "a.nzb">>}}

\* AddJob while the worker runs; a job that failed MaxRetryCount times is left alone
Enqueue(p, r) ==
    /\ RowOf(jobs, p) # 0 => jobs[RowOf(jobs, p)].retry_count < MaxRetryCount
    /\ AddJob(p, r, 0)

NextWorker ==
    \/ \E in \in EnqueueInputs : Enqueue(in[1], in[2]) /\ UNCHANGED <<handed, w, boots, sv, rbs, cf, dl, run, wt, p2>>
    \/ WorkerAsk /\ UNCHANGED <<handed, boots, sv, rbs, cf, dl, run, wt, p2>>
    \/ WorkerGot /\ UNCHANGED <<handed, boots, sv, rbs, cf, dl, run, wt, p2>>
    \/ WorkerPath /\ UNCHANGED <<handed, boots, sv, rbs, cf, dl, run, wt, p2>>
    \/ WorkerRepair /\ UNCHANGED <<handed, boots, sv, rbs, cf, dl, run, wt, p2>>
    \/ WorkerReport /\ UNCHANGED <<handed, boots, sv, rbs, cf, dl, run, wt, p2>>

SpecWorker == InitQueue /\ [][NextWorker]_vars

----------------------------------------------------------------------------
(* The supervisor dying and starting again on the same database *)

\* the row a crashed run left in processing (one worker: at most one), or 0
LeftProcessing(t) ==
    IF \E i \in Ids(t) : t[i].status = StatusProcessing
    THEN CHOOSE i \in Ids(t) : t[i].status = StatusProcessing
    ELSE 0

\* The process ends at any point (an open transaction is rolled back, the
\* mutex dies with the process) and RunWatcher starts again: NewQueue on the
\* existing file, CleanupProcessingJobs, then the worker goroutine
RunWatcherStart ==
    /\ boots < MaxBoots
    /\ boots' = boots + 1
    /\ jobs' = CleanupTable(jobs)
    /\ last' = [op |-> "CleanupProcessingJobs", id |-> LeftProcessing(jobs), rel |-> <<>>,
                pre |-> "absent", ret |-> CleanupRowsAffected(jobs)]
    /\ mu' = NoOne
    /\ cpc' = [c \in Callers |-> "idle"]
    /\ csel' = [c \in Callers |-> 0]
    /\ w' = WorkerIdle
    /\ UNCHANGED <<disk, handed, sv, rbs, cf, dl, run, wt, p2>>

\* the watcher enqueues a file it sees: a new one, or one whose job failed
EnqueueSeen(p) ==
    /\ RowOf(jobs, p) # 0 => jobs[RowOf(jobs, p)].status = StatusFailed
    /\ Enqueue(p, <<FileName(p)>>)

\* one step of the worker goroutine
WorkerStep ==
    /\ WorkerAsk \/ WorkerGot \/ WorkerPath \/ WorkerRepair \/ WorkerReport
    /\ UNCHANGED <<handed, boots, sv, rbs, cf, dl, run, wt, p2>>

NextRestart ==
    \/ \E p \in Paths : EnqueueSeen(p) /\ UNCHANGED <<handed, w, boots, sv, rbs, cf, dl, run, wt, p2>>
    \/ WorkerAsk /\ UNCHANGED <<handed, boots, sv, rbs, cf, dl, run, wt, p2>>
    \/ WorkerGot /\ UNCHANGED <<handed, boots, sv, rbs, cf, dl, run, wt, p2>>
    \/ WorkerPath /\ UNCHANGED <<handed, boots, sv, rbs, cf, dl, run, wt, p2>>
    \/ WorkerRepair /\ UNCHANGED <<handed, boots, sv, rbs, cf, dl, run, wt, p2>>
    \/ WorkerReport /\ UNCHANGED <<handed, boots, sv, rbs, cf, dl, run, wt, p2>>
    \/ RunWatcherStart

\* the ticker keeps firing and the loop body runs to its end
SpecRestart == InitQueue /\ [][NextRestart]_vars /\ WF_vars(WorkerStep)

\* time.Now() of an AddJob: later for a file that is new to the table than
\* for the files added before it
NowFor(t) == IF Len(t) < MaxNow THEN Len(t) ELSE MaxNow

\* the watcher enqueues a file: a new one, or again one whose job has ended
EnqueueAgain(p) ==
    /\ RowOf(jobs, p) # 0 => jobs[RowOf(jobs, p)].retry_count < MaxRetryCount
    /\ AddJob(p, <<FileName(p)>>, NowFor(jobs))

NextRequeue ==
    \/ \E p \in Paths : EnqueueAgain(p) /\ UNCHANGED <<handed, w, boots, sv, rbs, cf, dl, run, wt, p2>>
    \/ WorkerAsk /\ UNCHANGED <<handed, boots, sv, rbs, cf, dl, run, wt, p2>>
    \/ WorkerGot /\ UNCHANGED <<handed, boots, sv, rbs, cf, dl, run, wt, p2>>
    \/ WorkerPath /\ UNCHANGED <<handed, boots, sv, rbs, cf, dl, run, wt, p2>>
    \/ WorkerRepair /\ UNCHANGED <<handed, boots, sv, rbs, cf, dl, run, wt, p2>>
    \/ WorkerReport /\ UNCHANGED <<handed, boots, sv, rbs, cf, dl, run, wt, p2>>

\* watch mode with everything that writes the table: the watcher adding and
\* re-adding files, the worker, restarts with their cleanup, and the sweep
NextWatchMode ==
    \/ NextRequeue
    \/ RunWatcherStart
    \/ MoveFailedFiles(MaxRetries, BrokenFolder) /\ UNCHANGED <<handed, w, boots, sv, rbs, cf, dl, run, wt, p2>>

SpecWatchMode == InitQueue /\ [][NextWatchMode]_vars

\* one run of RunWatcher without a crash, the worker scheduled fairly
SpecRequeue == InitQueue /\ [][NextRequeue]_vars /\ WF_vars(WorkerStep)

----------------------------------------------------------------------------
(* One call of RepairNzb, statement by statement.  A file name is the       *)
(* sequence of its parts, each part after the first starting with a dot;    *)
(* a manifest is a sequence of files, a file a name and a sequence of       *)
(* segments, a segment a number and a message-id.                           *)

\* strings.ToLower / (?i) on the parts that occur
ToLower(part) ==
    IF part = ".PAR2" THEN ".par2" ELSE IF part = ".NZB" THEN ".nzb" ELSE part

\* parregexp (?i)(\.vol\d+\+(\d+))?\.par2$ matches the name
IsPar2Name(name) == ToLower(name[Len(name)]) = ".par2"

Seg(n, id) == [number |-> n, id |-> id]
DataFile == <<"a", ".mkv">>
ParFile == <<"a", ".PAR2">>

\* the manifests RepairNzb is called with: the one of TestRepairNzb, one without
\* par2 files, one with nothing else, and one whose segment list starts at 2
Manifests ==
    {<<[name |-> DataFile, segs |-> <<Seg(1, "d1"), Seg(2, "d2")>>],
       [name |-> ParFile, segs |-> <<Seg(1, "p1")>>]>>,
     <<[name |-> DataFile, segs |-> <<Seg(1, "d1"), Seg(2, "d2")>>]>>,
     <<[name |-> ParFile, segs |-> <<Seg(1, "p1")>>]>>,
     <<[name |-> DataFile, segs |-> <<Seg(2, "d2"), Seg(3, "d3")>>],
       [name |-> ParFile, segs |-> <<Seg(1, "p1")>>]>>}

\* message-ids of payload segments, of which any may be missing on the servers
DataIds == {"d1", "d2", "d3"}

\* generateRandomMessageID: the generator is seeded with the clock at the call
MaxClock == 2
generateRandomMessageID(clock) == "g" \o ToString(clock)
GenIds == {generateRandomMessageID(t) : t \in 0..MaxClock}

NoManifest == <<>>

\* splitParWithRest: indices of the par2 files and of the other files, in order
RECURSIVE SelectIdx(_, _, _)
SelectIdx(nzb, i, par) ==
    IF i > Len(nzb) THEN <<>>
    ELSE IF IsPar2Name(nzb[i].name) = par
         THEN <<i>> \o SelectIdx(nzb, i + 1, par)
         ELSE SelectIdx(nzb, i + 1, par)
parFiles(nzb) == SelectIdx(nzb, 1, TRUE)
restFiles(nzb) == SelectIdx(nzb, 1, FALSE)

\* the state of a call that has just been made
RunStarted(nzb, missing) ==
    [pc |-> "open", in |-> nzb, nzb |-> nzb, missing |-> missing, ctx |-> FALSE,
     fi |-> 1, lis |-> FALSE, ch |-> <<>>, broken |-> {}, bodies |-> {},
     par2runs |-> 0, par2err |-> "", posts |-> <<>>, done |-> {}, cur |-> 0,
     todo |-> {}, flying |-> {}, gerr |-> "", clock |-> 0, out |-> NoManifest,
     ret |-> "running", at |-> "", dlerr |-> FALSE, tmp |-> "none"]

Running == run.pc \notin {"none", "done"}

\* os.RemoveAll(tmpDir) of the deferred function: it removes the directory, or
\* fails and the error is logged
RemoveAll(tmp) == IF tmp = "present" THEN {"removed", "remove failed"} ELSE {tmp}

\* Return that leaves the working directory when the call returns an error
ReturnKeepsDirOnError(err) ==
    {[run EXCEPT !.pc = "done", !.ret = err, !.at = run.pc, !.tmp = t] :
        t \in IF err = "" THEN RemoveAll(run.tmp) ELSE {run.tmp}}

\* return err, with the statement the call returned from; the deferred
\* function registered after MkdirAll(tmpDir) runs
Return(err) ==
    {[run EXCEPT !.pc = "done", !.ret = err, !.at = run.pc, !.tmp = t] :
        t \in RemoveAll(run.tmp)}

\* the context is cancelled while the call runs
Cancel ==
    /\ Running
    /\ ~run.ctx
    /\ run' = [run EXCEPT !.ctx = TRUE]

\* the goroutine listening on brokenSegmentCh takes one segment into the map
Listen ==
    /\ run.lis
    /\ run.ch # <<>>
    /\ run' = [run EXCEPT !.ch = Tail(@), !.broken = @ \cup {Head(run.ch)}]

\* that goroutine returns on <-ctx.Done()
ListenStop ==
    /\ run.lis
    /\ run.ctx
    /\ run' = [run EXCEPT !.lis = FALSE]

\* os.Open, nzbparser.Parse
RunOpen ==
    /\ run.pc = "open"
    /\ \/ run' \in Return("open failed")
       \/ run' \in Return("parse failed")
       \/ run' = [run EXCEPT !.pc = "split"]

\* RunSplit without its two early returns
RunSplitNoEarlyReturn ==
    /\ run.pc = "split"
    /\ \/ run' \in Return("mkdir failed")
       \/ run' = [run EXCEPT !.pc = "download", !.fi = 1, !.lis = TRUE,
                                  !.tmp = "present"]

\* splitParWithRest, the two early returns, the listener, MkdirAll(tmpDir)
RunSplit ==
    /\ run.pc = "split"
    /\ IF parFiles(run.nzb) = <<>> THEN run' \in Return("")
       ELSE IF restFiles(run.nzb) = <<>> THEN run' \in Return("")
       ELSE \/ run' \in Return("mkdir failed")
            \/ run' = [run EXCEPT !.pc = "download", !.fi = 1, !.lis = TRUE,
                                  !.tmp = "present"]

\* the segments of file f that downloadPool.Body does not find
NotFound(f) ==
    {k \in DOMAIN run.nzb[f].segs : run.nzb[f].segs[k].id \in run.missing}

\* the elements of a set of segment indices as a sequence, in any one order
AsSeq(f, ks) ==
    CHOOSE q \in [1..Cardinality(ks) -> {f} \X ks] :
        \A i, j \in DOMAIN q : i # j => q[i] # q[j]

\* for _, f := range restFiles: the check of ctx.Err(), then downloadWorker,
\* which asks for every segment and sends the ones not found for repair, or
\* whose first fetch fails with another error: that error is only logged
RunDownload ==
    /\ run.pc = "download"
    /\ IF run.ctx THEN run' \in Return("")
       ELSE IF run.fi > Len(restFiles(run.nzb))
            THEN run' = [run EXCEPT !.pc = "downloaded"]
            ELSE LET f == restFiles(run.nzb)[run.fi] IN
                 \/ run' = [run EXCEPT
                               !.fi = @ + 1,
                               !.bodies = @ \cup {run.nzb[f].segs[k].id : k \in DOMAIN run.nzb[f].segs},
                               !.ch = @ \o AsSeq(f, NotFound(f))]
                 \/ run' = [run EXCEPT !.fi = @ + 1, !.dlerr = TRUE]

\* RunDownloaded without the test of len(brokenSegments)
RunDownloadedNoCheck ==
    /\ run.pc = "downloaded"
    /\ IF run.ctx THEN run' \in Return("")
       ELSE run' = [run EXCEPT !.pc = "par2 files", !.fi = 1]

\* if ctx.Err() != nil { return nil }; if len(brokenSegments) == 0 { return nil }
RunDownloaded ==
    /\ run.pc = "downloaded"
    /\ IF run.ctx THEN run' \in Return("")
       ELSE IF run.broken = {} THEN run' \in Return("")
       ELSE run' = [run EXCEPT !.pc = "par2 files", !.fi = 1]

\* for _, f := range parFiles: the check of ctx.Err(), then downloadWorker
RunPar2Files ==
    /\ run.pc = "par2 files"
    /\ IF run.fi > Len(parFiles(run.nzb))
       THEN run' = [run EXCEPT !.pc = "par2"]
       ELSE IF run.ctx THEN run' \in Return("")
       ELSE LET f == parFiles(run.nzb)[run.fi] IN
            run' = [run EXCEPT
                       !.fi = @ + 1,
                       !.bodies = @ \cup {run.nzb[f].segs[k].id : k \in DOMAIN run.nzb[f].segs}]

\* err = par2Executor.Repair(ctx, tmpDir): the error is logged
RunPar2 ==
    /\ run.pc = "par2"
    /\ \E code \in {0, 2} :
          run' = [run EXCEPT !.pc = "upload", !.par2runs = @ + 1,
                             !.par2err = Par2Repair(code)]

\* replaceBrokenSegments, for nzbFile, bs := range brokenSegments: the check
\* of ctx.Err(), os.Open and Stat of the repaired file, one task per segment
RunUpload ==
    /\ run.pc = "upload"
    /\ LET left == {b[1] : b \in run.broken} \ run.done IN
       IF left = {} \/ run.ctx THEN run' = [run EXCEPT !.pc = "write"]
       ELSE \E f \in left :
               \/ run' \in Return("open failed")
               \/ run' = [run EXCEPT !.pc = "posting", !.cur = f,
                             !.todo = {b[2] : b \in {c \in run.broken : c[1] = f}}]

\* a pool whose context is the caller's alone, without WithCancelOnError
GroupDoneOnlyCtx == run.ctx

\* the context of the pool is done: the caller's is, or a task has failed
GroupDone == run.ctx \/ run.gerr # ""

\* the first error of the pool
Failed(err) == IF run.gerr = "" THEN err ELSE run.gerr

\* a task starts: the check of ctx.Err(), f.ReadAt, generateRandomMessageID,
\* EncodeBytes, and the call of uploadPool.Post
RunPostBegin ==
    /\ run.pc = "posting"
    /\ \E k \in run.todo :
          IF GroupDone THEN run' = [run EXCEPT !.todo = @ \ {k}]
          ELSE \/ run' = [run EXCEPT !.todo = @ \ {k}, !.gerr = Failed("read failed")]
               \/ \E t \in run.clock..MaxClock :
                     run' = [run EXCEPT
                                !.todo = @ \ {k},
                                !.clock = t,
                                !.posts = Append(@, <<run.cur, k>>),
                                !.flying = @ \cup {<<k, generateRandomMessageID(t)>>}]

\* the new id written to the first segment of the file
ReplaceIdOfFirst(nzb, f, k, msgId) ==
    [nzb EXCEPT ![f].segs[1].id = msgId]

\* nzbFile.Segments[s.segment.Number-1].Id = msgId
ReplaceId(nzb, f, k, msgId) ==
    [nzb EXCEPT ![f].segs[nzb[f].segs[k].number].id = msgId]

\* uploadPool.Post returns: with an error, or with nil and the id is replaced
RunPostEnd ==
    /\ run.pc = "posting"
    /\ \E fl \in run.flying :
          LET k == fl[1]
              segs == run.nzb[run.cur].segs
          IN  \/ run' = [run EXCEPT !.flying = @ \ {fl}, !.gerr = Failed("post failed")]
              \/ /\ GroupDone
                 /\ run' = [run EXCEPT !.flying = @ \ {fl},
                                       !.gerr = Failed("context canceled")]
              \/ IF segs[k].number \in DOMAIN segs
                 THEN run' = [run EXCEPT !.flying = @ \ {fl},
                                         !.nzb = ReplaceId(run.nzb, run.cur, k, fl[2])]
                 ELSE run' \in Return("panic: index out of range")

\* p.Wait(), and nzb.Files[i] = *nzbFile
RunWait ==
    /\ run.pc = "posting"
    /\ run.todo = {}
    /\ run.flying = {}
    /\ IF run.gerr # "" THEN run' \in Return(run.gerr)
       ELSE run' = [run EXCEPT !.pc = "upload", !.done = @ \cup {run.cur}]

\* MkdirAll of the output directory, nzbparser.Write, os.Create, Write
RunWrite ==
    /\ run.pc = "write"
    /\ \/ run' \in Return("mkdir failed")
       \/ run' \in Return("create failed")
       \/ \E r \in Return("") : run' = [r EXCEPT !.out = run.nzb]

InitRepair ==
    /\ InitStore
    /\ boots = 1
    /\ sv = NoSupervisor
    /\ rbs = NoUpload
    /\ cf = NoConfig
    /\ dl = NoDownload
    /\ wt = NoWatch
    /\ p2 = NoCall
    /\ \E nzb \in Manifests, missing \in SUBSET DataIds : run = RunStarted(nzb, missing)

Rest == UNCHANGED <<jobs, disk, last, mu, cpc, csel, handed, w, boots, sv, rbs, cf, dl, wt, p2>>

NextRepair ==
    \/ RunOpen /\ Rest
    \/ RunSplit /\ Rest
    \/ RunDownload /\ Rest
    \/ RunDownloaded /\ Rest
    \/ RunPar2Files /\ Rest
    \/ RunPar2 /\ Rest
    \/ RunUpload /\ Rest
    \/ RunPostBegin /\ Rest
    \/ RunPostEnd /\ Rest
    \/ RunWait /\ Rest
    \/ RunWrite /\ Rest
    \/ Listen /\ Rest
    \/ ListenStop /\ Rest
    \/ Cancel /\ Rest

SpecRepair == InitRepair /\ [][NextRepair]_vars

----------------------------------------------------------------------------
(* One call of Par2CmdExecutor.Repair on a working directory *)

\* the file names a working directory may hold
DirNames ==
    {<<"a", ".mkv">>, <<"a", ".par2">>, <<"a", ".PAR2">>, <<"a", ".par2", ".bak">>,
     <<".par2">>}

\* exp `^.+\.par2` matches the name: ".par2" occurs after at least one character
MatchesExp(name) == \E i \in 2..Len(name) : name[i] = ".par2"

\* the exit codes the binary is run with, and the names of par2ExitCodes
MaxExitCode == 9
ExitCodes == 0..MaxExitCode
par2ExitCodes ==
    <<"Repair possible", "Repair not possible", "Invalid command line arguments",
      "Insufficient critical data to verify", "Repair failed", "FileIO Error",
      "Logic Error", "Out of memory">>

\* what the binary writes to stderr, and what the reading goroutine has of it
\* when cmd.Run returns
StderrLines == {<<>>, <<"e1">>, <<"e1", "e2">>}
Prefixes(q) == {SubSeq(q, 1, n) : n \in 0..Len(q)}

Nil == [kind |-> "nil"]

\* the error for an *exec.ExitError with this code
ExitErrorOf(code, collected) ==
    IF code \in DOMAIN par2ExitCodes
    THEN [kind |-> "par2 exited with code", code |-> code,
          name |-> par2ExitCodes[code], stderr |-> collected]
    ELSE [kind |-> "par2 exited with unknown code", code |-> code,
          name |-> "", stderr |-> collected]

CallStarted(dir) ==
    [pc |-> "walk", dir |-> dir, file |-> <<>>, started |-> FALSE, code |-> -1,
     written |-> <<>>, ret |-> Nil]

\* filepath.Walk and the test of par2FileName
Par2Walk ==
    /\ p2.pc = "walk"
    /\ \/ p2' = [p2 EXCEPT !.pc = "done", !.ret = [kind |-> "error finding .par2 file"]]
       \/ /\ \A n \in p2.dir : ~MatchesExp(n)
          /\ p2' = [p2 EXCEPT !.pc = "done", !.ret = Nil]
       \/ \E n \in p2.dir :
             /\ MatchesExp(n)
             /\ p2' = [p2 EXCEPT !.pc = "pipes", !.file = n]

\* execCommand, StderrPipe, StdoutPipe
Par2Pipes ==
    /\ p2.pc = "pipes"
    /\ \/ p2' = [p2 EXCEPT !.pc = "done", !.ret = [kind |-> "failed to get pipe"]]
       \/ p2' = [p2 EXCEPT !.pc = "run"]

\* cmd.Run: the binary does not start, or runs and exits with a code
Par2Run ==
    /\ p2.pc = "run"
    /\ \/ p2' = [p2 EXCEPT !.pc = "done", !.ret = [kind |-> "failed to run par2 command"]]
       \/ \E code \in ExitCodes, lines \in StderrLines :
             p2' = [p2 EXCEPT !.pc = "ran", !.started = TRUE, !.code = code,
                              !.written = lines]

\* the return after cmd.Run, with stderrOutput.String() as far as it was filled
Par2Return ==
    /\ p2.pc = "ran"
    /\ IF p2.code = 0 THEN p2' = [p2 EXCEPT !.pc = "done", !.ret = Nil]
       ELSE \E collected \in Prefixes(p2.written) :
               p2' = [p2 EXCEPT !.pc = "done", !.ret = ExitErrorOf(p2.code, collected)]

InitPar2 ==
    /\ InitStore
    /\ boots = 1
    /\ sv = NoSupervisor
    /\ rbs = NoUpload
    /\ cf = NoConfig
    /\ dl = NoDownload
    /\ run = NoRun
    /\ wt = NoWatch
    /\ \E dir \in SUBSET DirNames : p2 = CallStarted(dir)

NotPar2 == UNCHANGED <<jobs, disk, last, mu, cpc, csel, handed, w, boots, sv, rbs, cf, dl, run, wt>>

NextPar2 ==
    \/ Par2Walk /\ NotPar2
    \/ Par2Pipes /\ NotPar2
    \/ Par2Run /\ NotPar2
    \/ Par2Return /\ NotPar2

SpecPar2 == InitPar2 /\ [][NextPar2]_vars

----------------------------------------------------------------------------
(* The watcher: Watcher.Run, scanDirectoryForNzb, addFileToQueue.  The       *)
(* file system under the watch root and the events of the broker are the    *)
(* environment; a path is the pair of its directory and its name.           *)

\* names of the entries that appear, and filepath.Ext of each
EntryNames == {"a.nzb", "b.NZB", "c.txt"}
Ext(name) ==
    CASE name = "a.nzb" -> ".nzb"
      [] name = "b.NZB" -> ".NZB"
      [] name = "c.txt" -> ".txt"
      [] OTHER -> ""

\* what an entry is: nothing, a regular file, a named pipe, a directory
EntryKinds == {"regular", "fifo"}
Entries == {WatchDir, SubDir} \X EntryNames
SubEntry == <<WatchDir, "sub">>

\* how many entries appear under the root while the watcher runs
MaxEntries == 3

WatchStarted ==
    [pc |-> "loop", fs |-> [e \in Entries |-> "none"], sub |-> FALSE,
     events |-> <<>>, scan |-> "none", found |-> {}, added |-> {}]

\* os.Stat(path).IsDir(), d.IsDir()
IsDir(path) == path = SubEntry

\* strings.ToLower(filepath.Ext(path)) == ".nzb"
HasNzbExt(path) == ToLower(Ext(path[2])) = ".nzb"

\* filepath.Rel(w.dir, absPath)
Rel(path) == IF path[1] = WatchDir THEN <<path[2]>> ELSE <<"sub", path[2]>>

Present == {e \in Entries : wt.fs[e] # "none"}

\* an entry appears in the root, or in the subdirectory once that exists;
\* the broker, which watches both, reports it
CreateEntry ==
    /\ wt.pc = "loop"
    /\ Cardinality(Present) < MaxEntries
    /\ \E e \in Entries \ Present, k \in EntryKinds :
          /\ e[1] = SubDir => wt.sub
          /\ wt' = [wt EXCEPT !.fs[e] = k, !.events = Append(@, e)]

\* a directory appears in the root, empty or moved in with entries in it;
\* the broker reports the directory
CreateSub ==
    /\ wt.pc = "loop"
    /\ ~wt.sub
    /\ \E inside \in SUBSET ({SubDir} \X EntryNames), k \in EntryKinds :
          /\ Cardinality(Present) + Cardinality(inside) <= MaxEntries
          /\ wt' = [wt EXCEPT !.sub = TRUE,
                              !.fs = [e \in Entries |-> IF e \in inside THEN k ELSE @[e]],
                              !.events = Append(@, SubEntry)]

\* addFileToQueue: filepath.Abs, filepath.Rel, queue.AddJob
addFileToQueue(path) ==
    /\ \E now \in Times : AddJob(path, Rel(path), now)
    /\ UNCHANGED <<handed, w, boots, sv, rbs, cf, dl, run, p2>>

\* case event := <-broker.Next() of Run, for a Create event
WatchEvent ==
    /\ wt.pc = "loop"
    /\ wt.events # <<>>
    /\ LET path == Head(wt.events) IN
       IF IsDir(path)
       THEN /\ wt' = [wt EXCEPT !.events = Tail(@), !.scan = "walk"]
            /\ UNCHANGED <<jobs, disk, last, mu, cpc, csel, handed, w, boots, sv, rbs, cf, dl, run, p2>>
       ELSE IF HasNzbExt(path)
       THEN /\ wt' = [wt EXCEPT !.events = Tail(@), !.added = @ \cup {<<path, Rel(path)>>}]
            /\ addFileToQueue(path)
       ELSE /\ wt' = [wt EXCEPT !.events = Tail(@)]
            /\ UNCHANGED <<jobs, disk, last, mu, cpc, csel, handed, w, boots, sv, rbs, cf, dl, run, p2>>

\* scanDirectoryForNzb: filepath.WalkDir reads the entries of the directory
ScanRead ==
    /\ wt.scan = "walk"
    /\ wt' = [wt EXCEPT !.scan = "visit", !.found = {e \in Present : e[1] = SubDir}]
    /\ UNCHANGED <<jobs, disk, last, mu, cpc, csel, handed, w, boots, sv, rbs, cf, dl, run, p2>>

\* the function WalkDir calls for an entry
ScanVisit ==
    /\ wt.scan = "visit"
    /\ \E path \in wt.found :
          IF ~IsDir(path) /\ HasNzbExt(path)
          THEN /\ wt' = [wt EXCEPT !.found = @ \ {path},
                                   !.added = @ \cup {<<path, Rel(path)>>}]
               /\ addFileToQueue(path)
          ELSE /\ wt' = [wt EXCEPT !.found = @ \ {path}]
               /\ UNCHANGED <<jobs, disk, last, mu, cpc, csel, handed, w, boots, sv, rbs, cf, dl, run, p2>>

\* WalkDir returns
ScanEnd ==
    /\ wt.scan = "visit"
    /\ wt.found = {}
    /\ wt' = [wt EXCEPT !.scan = "done"]
    /\ UNCHANGED <<jobs, disk, last, mu, cpc, csel, handed, w, boots, sv, rbs, cf, dl, run, p2>>

\* case <-ctx.Done() of Run
WatchStop ==
    /\ wt.pc = "loop"
    /\ wt' = [wt EXCEPT !.pc = "stopped"]
    /\ UNCHANGED <<jobs, disk, last, mu, cpc, csel, handed, w, boots, sv, rbs, cf, dl, run, p2>>

InitWatch ==
    /\ InitStore
    /\ boots = 1
    /\ sv = NoSupervisor
    /\ rbs = NoUpload
    /\ cf = NoConfig
    /\ dl = NoDownload
    /\ run = NoRun
    /\ p2 = NoCall
    /\ wt = WatchStarted

NextWatch ==
    \/ CreateEntry /\ UNCHANGED <<jobs, disk, last, mu, cpc, csel, handed, w, boots, sv, rbs, cf, dl, run, p2>>
    \/ CreateSub /\ UNCHANGED <<jobs, disk, last, mu, cpc, csel, handed, w, boots, sv, rbs, cf, dl, run, p2>>
    \/ WatchEvent
    \/ ScanRead
    \/ ScanVisit
    \/ ScanEnd
    \/ WatchStop

SpecWatch == InitWatch /\ [][NextWatch]_vars

----------------------------------------------------------------------------
(* Loading the configuration: NewFromFile and mergeWithDefault.  A key the  *)
(* file omits is the zero value of its field after yaml.Unmarshal.          *)

providerConfigDefaultMaxConnections == 10
downloadWorkersDefault == 10
uploadWorkersDefault == 10

\* what a file may give for a worker count and for max_connections, and how
\* many providers it may list on each side
MaxWorkersGiven == 2
MaxConnectionsGiven == 2
MaxProviders == 2

ProviderLists ==
    UNION {[1..n -> [MaxConnections : 0..MaxConnectionsGiven]] : n \in 0..MaxProviders}

ConfigFiles ==
    [DownloadWorkers : 0..MaxWorkersGiven, UploadWorkers : 0..MaxWorkersGiven,
     DownloadProviders : ProviderLists, UploadProviders : ProviderLists]

\* if p.MaxConnections == 0 { p.MaxConnections = providerConfigDefault.MaxConnections }
WithDefault(prov) ==
    [prov EXCEPT !.MaxConnections =
        IF @ = 0 THEN providerConfigDefaultMaxConnections ELSE @]

\* the loop over the providers: the defaults filled in
FillProviders(provs) == [i \in DOMAIN provs |-> WithDefault(provs[i])]

\* the loop over the providers: the sum of MaxConnections, starting from 0
RECURSIVE SumConnections(_)
SumConnections(provs) ==
    IF provs = <<>> THEN 0
    ELSE provs[1].MaxConnections + SumConnections(Tail(provs))

\* mergeWithDefault(), called with no Config
mergeWithDefaultOfNone ==
    [DownloadProviders |-> <<>>, UploadProviders |-> <<>>,
     DownloadWorkers |-> downloadWorkersDefault, UploadWorkers |-> uploadWorkersDefault]

\* mergeWithDefault(cfg), called with one Config
mergeWithDefault(cfg) ==
    LET down == FillProviders(cfg.DownloadProviders)
        up == FillProviders(cfg.UploadProviders)
    IN  [DownloadProviders |-> down,
         UploadProviders |-> up,
         DownloadWorkers |-> IF cfg.DownloadWorkers = 0
                             THEN SumConnections(down) ELSE cfg.DownloadWorkers,
         UploadWorkers |-> IF cfg.UploadWorkers = 0
                           THEN SumConnections(up) ELSE cfg.UploadWorkers]

\* NewFromFile: os.ReadFile or yaml.Unmarshal fails
NewFromFileFails ==
    /\ cf.pc = "file"
    /\ cf' = [cf EXCEPT !.pc = "error"]

\* NewFromFile: return mergeWithDefault(cfg), nil
NewFromFile ==
    /\ cf.pc = "file"
    /\ cf' = [cf EXCEPT !.pc = "loaded", !.cfg = mergeWithDefault(cf.file)]

InitConfig ==
    /\ InitStore
    /\ boots = 1
    /\ sv = NoSupervisor
    /\ rbs = NoUpload
    /\ dl = NoDownload
    /\ run = NoRun
    /\ wt = NoWatch
    /\ p2 = NoCall
    /\ \E file \in ConfigFiles : cf = [pc |-> "file", file |-> file, cfg |-> file]

NotConfig == UNCHANGED <<jobs, disk, last, mu, cpc, csel, handed, w, boots, sv, rbs, dl, run, wt, p2>>

NextConfig ==
    \/ NewFromFileFails /\ NotConfig
    \/ NewFromFile /\ NotConfig

SpecConfig == InitConfig /\ [][NextConfig]_vars

----------------------------------------------------------------------------
(* One call of downloadWorker for a payload file, task by task, with the    *)
(* goroutine of RepairNzb that listens on brokenSegmentCh and the deferred  *)
(* close of that channel.  A segment is named by its number; the file that  *)
(* is written maps a byte position to the segment whose byte is there.      *)

\* segments of the file, goroutines of the pool, places in the channel
MaxSegments == 3
DownloadWorkers == 2
ChanCap == 1

SegNumbers == 1..MaxSegments

\* the body length of each segment as the servers have it: all equal, or a
\* shorter last segment; and the size the manifest gives for every segment
BodyLens == {[k \in SegNumbers |-> 2], [k \in SegNumbers |-> IF k = MaxSegments THEN 1 ELSE 2]}
AdvertisedBytes == {2, 3}

NoSeg == 0
Positions == 0..(2 * MaxSegments - 1)

DownloadStarted(lens, bytes) ==
    [pc |-> "start", lens |-> lens, bytes |-> bytes, i |-> 1,
     task |-> [k \in SegNumbers |-> "new"], got |-> [k \in SegNumbers |-> "none"],
     ctx |-> FALSE, c |-> FALSE, perr |-> "", ret |-> "running",
     ch |-> <<>>, closed |-> FALSE, lis |-> TRUE, broken |-> <<>>,
     sent |-> <<>>, file |-> [pos \in Positions |-> NoSeg], once |-> FALSE,
     panic |-> FALSE]

\* tasks that hold a goroutine of the pool
Active == {k \in SegNumbers : dl.task[k] \in {"fetching", "sending"}}

\* the context of the pool is done: the caller's is, or a task returned an error
PoolDone == dl.ctx \/ dl.perr # ""

\* the first error of the pool
FirstError(err) == IF dl.perr = "" THEN err ELSE dl.perr

\* return err from downloadWorker
DlReturn(err) == [dl EXCEPT !.pc = "returned", !.ret = err]

\* os.Stat(filePath) finds the file, or os.Create fails, or the loop starts
DlStart ==
    /\ dl.pc = "start"
    /\ \/ dl' = DlReturn("")
       \/ dl' = DlReturn("failed to create file")
       \/ dl' = [dl EXCEPT !.pc = "select"]

\* for _, s := range file.Segments { select { c.Done, ctx.Done, default } }
DlSelect ==
    /\ dl.pc = "select"
    /\ IF dl.i > MaxSegments THEN dl' = [dl EXCEPT !.pc = "wait"]
       ELSE IF dl.c \/ dl.ctx THEN dl' = DlReturn("")
       ELSE dl' = [dl EXCEPT !.pc = "go"]

\* p.Go: waits for a free goroutine of the pool, which calls downloadPool.Body
DlGo ==
    /\ dl.pc = "go"
    /\ Cardinality(Active) < DownloadWorkers
    /\ dl' = [dl EXCEPT !.pc = "select", !.i = @ + 1, !.task[dl.i] = "fetching"]

\* WriteAt(buff.Bytes(), (s.Number - 1) * buff.Len())
WriteAt(file, k, len) ==
    [pos \in Positions |->
        IF pos >= (k - 1) * len /\ pos < (k - 1) * len + len THEN k ELSE file[pos]]

\* TaskBody with a not-found result handled like any other error
TaskBodyNotFoundAborts(k) ==
    /\ dl.task[k] = "fetching"
    /\ \/ dl' = [dl EXCEPT !.task[k] = "done", !.got[k] = "ok",
                           !.file = WriteAt(@, k, dl.lens[k])]
       \/ dl' = [dl EXCEPT !.task[k] = "done", !.got[k] = "not found", !.c = TRUE,
                           !.perr = FirstError("segment not found")]

\* downloadPool.Body returns for segment k and the task acts on the result
TaskBody(k) ==
    /\ dl.task[k] = "fetching"
    /\ \/ dl' = [dl EXCEPT !.task[k] = "done", !.got[k] = "ok",
                           !.file = WriteAt(@, k, dl.lens[k])]
       \/ dl' = [dl EXCEPT !.task[k] = "done", !.got[k] = "write failed",
                           !.perr = FirstError("failed to write segment")]
       \/ dl' = [dl EXCEPT !.task[k] = "sending", !.got[k] = "not found"]
       \/ dl' = [dl EXCEPT !.task[k] = "done", !.got[k] = "error", !.c = TRUE,
                           !.perr = FirstError("fetch failed")]
       \/ /\ PoolDone
          /\ dl' = [dl EXCEPT !.task[k] = "done", !.got[k] = "canceled"]

\* brokenSegmentCh <- brokenSegment{segment: &s, file: &file}, then once.Do,
\* whose loop assigns to copies of the segments
TaskSend(k) ==
    /\ dl.task[k] = "sending"
    /\ IF dl.closed
       THEN dl' = [dl EXCEPT !.task[k] = "done", !.panic = TRUE]
       ELSE /\ Len(dl.ch) < ChanCap
            /\ dl' = [dl EXCEPT !.task[k] = "done", !.once = TRUE,
                                !.ch = Append(@, [number |-> k, bytes |-> dl.bytes]),
                                !.sent = Append(@, k)]

\* p.Wait(), then return err or fileWriter.Close()
DlWait ==
    /\ dl.pc = "wait"
    /\ Active = {}
    /\ dl' = DlReturn(dl.perr)

\* the listener of RepairNzb takes an event into the map
DlListen ==
    /\ dl.lis
    /\ dl.ch # <<>>
    /\ dl' = [dl EXCEPT !.ch = Tail(@), !.broken = Append(@, Head(dl.ch))]

\* the listener returns on <-ctx.Done()
DlListenStop ==
    /\ dl.lis
    /\ dl.ctx
    /\ dl' = [dl EXCEPT !.lis = FALSE]

\* the listener returns on the closed and drained channel
DlListenEnd ==
    /\ dl.lis
    /\ dl.closed
    /\ dl.ch = <<>>
    /\ dl' = [dl EXCEPT !.lis = FALSE]

\* RepairNzb, after downloadWorker has returned, returns and runs close(brokenSegmentCh)
DlClose ==
    /\ dl.pc = "returned"
    /\ ~dl.closed
    /\ dl' = [dl EXCEPT !.closed = TRUE]

\* the context of RepairNzb is cancelled
DlCancel ==
    /\ dl.pc # "none"
    /\ ~dl.ctx
    /\ ~dl.closed
    /\ dl' = [dl EXCEPT !.ctx = TRUE]

InitDownload ==
    /\ InitStore
    /\ boots = 1
    /\ sv = NoSupervisor
    /\ rbs = NoUpload
    /\ cf = NoConfig
    /\ run = NoRun
    /\ wt = NoWatch
    /\ p2 = NoCall
    /\ \E lens \in BodyLens, bytes \in AdvertisedBytes : dl = DownloadStarted(lens, bytes)

NotDownload == UNCHANGED <<jobs, disk, last, mu, cpc, csel, handed, w, boots, sv, rbs, cf, run, wt, p2>>

NextDownload ==
    \/ DlStart /\ NotDownload
    \/ DlSelect /\ NotDownload
    \/ DlGo /\ NotDownload
    \/ \E k \in SegNumbers : TaskBody(k) /\ NotDownload
    \/ \E k \in SegNumbers : TaskSend(k) /\ NotDownload
    \/ DlWait /\ NotDownload
    \/ DlListen /\ NotDownload
    \/ DlListenStop /\ NotDownload
    \/ DlListenEnd /\ NotDownload
    \/ DlClose /\ NotDownload
    \/ DlCancel /\ NotDownload

SpecDownload == InitDownload /\ [][NextDownload]_vars

\* every step of the call, of its tasks, of the listener and of the caller's
\* return: all but the cancellation, which nothing obliges to happen
DownloadStep ==
    /\ \/ DlStart \/ DlSelect \/ DlGo \/ DlWait
       \/ \E k \in SegNumbers : TaskBody(k) \/ TaskSend(k)
       \/ DlListen \/ DlListenStop \/ DlListenEnd \/ DlClose
    /\ NotDownload

\* the goroutines are scheduled: the program does not stop while it has a step
SpecDownloadFair == SpecDownload /\ WF_vars(DownloadStep)

----------------------------------------------------------------------------
(* RunWatcher from its start to its return: the errgroup of the watcher task
   and the worker task, the pools, and the deferred functions *)

\* how many jobs the worker handles in one run of the model
MaxHandled == 2

SupervisorStarted ==
    [pc |-> "cleanup", ctx |-> FALSE, watcher |-> "new", worker |-> "new", handled |-> 0,
     scan |-> "none", egerr |-> "", download |-> "none", upload |-> "none",
     queue |-> "open", lateAdd |-> FALSE, ret |-> "running"]

\* gCtx of errgroup.WithContext(ctx): done when ctx is, or when a task of the
\* group has returned an error
gCtxDone == sv.ctx \/ sv.egerr # ""

\* the error the group keeps: the first one that is not nil
GroupError(err) == IF sv.egerr = "" THEN err ELSE sv.egerr

\* return err from RunWatcher before the pools exist: the deferred Close runs
SvReturn(err) == [sv EXCEPT !.pc = "returned", !.ret = err, !.queue = "closed"]

\* CleanupProcessingJobs (its error is logged), prepareTmpDir, MkdirAll,
\* filepath.Abs, ensurePar2Executable
SvPrepare ==
    /\ sv.pc = "cleanup"
    /\ \/ sv' = SvReturn("failed to prepare")
       \/ sv' = [sv EXCEPT !.pc = "pools"]

\* createPools: the upload pool, then the download pool, and Quit of the
\* upload pool when the second fails
SvPools ==
    /\ sv.pc = "pools"
    /\ \/ sv' = SvReturn("failed to create upload pool")
       \/ sv' = [SvReturn("failed to create download pool") EXCEPT !.upload = "closed"]
       \/ sv' = [sv EXCEPT !.pc = "go", !.upload = "open", !.download = "open"]

\* eg.Go of the watcher task and of the worker task
SvGo ==
    /\ sv.pc = "go"
    /\ sv' = [sv EXCEPT !.pc = "wait", !.watcher = "starting", !.worker = "select"]

\* fileWatcher.Run: NewFSBroker and AddRecursiveWatch fail, or the loop starts
SvWatcherStart ==
    /\ sv.watcher = "starting"
    /\ \/ sv' = [sv EXCEPT !.watcher = "exited",
                           !.egerr = GroupError("directory watcher error")]
       \/ sv' = [sv EXCEPT !.watcher = "loop"]

\* the watch loop takes a Create event of a directory: go w.scanDirectoryForNzb
SvWatcherEvent ==
    /\ sv.watcher = "loop"
    /\ sv.scan = "none"
    /\ sv' = [sv EXCEPT !.scan = "check"]

\* the watch loop takes <-ctx.Done(): Run returns ctx.Err(), the task nil
SvWatcherStop ==
    /\ sv.watcher = "loop"
    /\ gCtxDone
    /\ sv' = [sv EXCEPT !.watcher = "exited"]

\* the walk function of the scan: the test of ctx.Done(), then the entry
SvScanCheck ==
    /\ sv.scan = "check"
    /\ IF gCtxDone THEN sv' = [sv EXCEPT !.scan = "ended"]
       ELSE \/ sv' = [sv EXCEPT !.scan = "add"]
            \/ sv' = [sv EXCEPT !.scan = "ended"]

\* addFileToQueue of the scan: AddJob on the queue handle as it is then
SvScanAdd ==
    /\ sv.scan = "add"
    /\ sv' = [sv EXCEPT !.scan = "check", !.lateAdd = @ \/ sv.queue = "closed"]

\* the worker's select takes <-workerTicker.C and handles one job, or none
SvWorkerTick ==
    /\ sv.worker = "select"
    /\ sv.handled < MaxHandled
    /\ sv' = [sv EXCEPT !.worker = "job"]

\* GetNextJob, RepairNzb with gCtx and UpdateJobStatus have returned
SvWorkerJob ==
    /\ sv.worker = "job"
    /\ sv' = [sv EXCEPT !.worker = "select", !.handled = @ + 1]

\* the worker's select takes <-gCtx.Done(): return gCtx.Err()
SvWorkerStop ==
    /\ sv.worker = "select"
    /\ gCtxDone
    /\ sv' = [sv EXCEPT !.worker = "exited", !.egerr = GroupError("context canceled")]

\* eg.Wait() returns when both tasks have; context.Canceled is not an error
SvWait ==
    /\ sv.pc = "wait"
    /\ sv.watcher = "exited"
    /\ sv.worker = "exited"
    /\ sv' = [sv EXCEPT !.pc = "quit",
                        !.ret = IF sv.egerr = "context canceled" THEN "" ELSE sv.egerr]

\* the deferred function of the pools: downloadPool.Quit(); uploadPool.Quit()
\* is commented out
SvQuit ==
    /\ sv.pc = "quit"
    /\ sv' = [sv EXCEPT !.pc = "close", !.download = "closed"]

\* the deferred dbQueue.Close()
SvClose ==
    /\ sv.pc = "close"
    /\ sv' = [sv EXCEPT !.pc = "returned", !.queue = "closed"]

\* SIGINT or SIGTERM cancels the context of RunWatcher
SvCancel ==
    /\ sv.pc \notin {"none", "returned"}
    /\ ~sv.ctx
    /\ sv' = [sv EXCEPT !.ctx = TRUE]

InitSupervisor ==
    /\ InitStore
    /\ boots = 1
    /\ cf = NoConfig
    /\ dl = NoDownload
    /\ run = NoRun
    /\ wt = NoWatch
    /\ p2 = NoCall
    /\ sv = SupervisorStarted
    /\ rbs = NoUpload

NotSupervisor == UNCHANGED <<jobs, disk, last, mu, cpc, csel, handed, w, boots, rbs, cf, dl, run, wt, p2>>

NextSupervisor ==
    \/ SvPrepare /\ NotSupervisor
    \/ SvPools /\ NotSupervisor
    \/ SvGo /\ NotSupervisor
    \/ SvWatcherStart /\ NotSupervisor
    \/ SvWatcherEvent /\ NotSupervisor
    \/ SvWatcherStop /\ NotSupervisor
    \/ SvScanCheck /\ NotSupervisor
    \/ SvScanAdd /\ NotSupervisor
    \/ SvWorkerTick /\ NotSupervisor
    \/ SvWorkerJob /\ NotSupervisor
    \/ SvWorkerStop /\ NotSupervisor
    \/ SvWait /\ NotSupervisor
    \/ SvQuit /\ NotSupervisor
    \/ SvClose /\ NotSupervisor
    \/ SvCancel /\ NotSupervisor

SpecSupervisor == InitSupervisor /\ [][NextSupervisor]_vars

----------------------------------------------------------------------------
(* replaceBrokenSegments on one file: the range read and the article built
   for each broken segment *)

\* the largest bytes value of a segment in the manifest
MaxBytes == 2

\* the bytes value the manifest gives for each segment of the file
SegBytes == [SegNumbers -> 1..MaxBytes]

\* fs.Size() of the repaired file: the bytes of its segments
RECURSIVE SizeOf(_, _)
SizeOf(bytes, k) == IF k = 0 THEN 0 ELSE SizeOf(bytes, k - 1) + bytes[k]

UploadStarted(bytes, broken) ==
    [pc |-> "tasks", bytes |-> bytes, fileSize |-> SizeOf(bytes, MaxSegments),
     todo |-> broken, articles |-> {}, perr |-> ""]

\* f.ReadAt(buff, off) fills the whole buffer or returns an error
ReadAtFails(off, len, fileSize) == off + len > fileSize

\* articleData of segment k: PartNum, PartTotal, PartBegin, PartEnd
ArticleOf(k) ==
    [PartNum |-> k,
     PartTotal |-> rbs.fileSize \div rbs.bytes[k],
     PartBegin |-> (k - 1) * rbs.bytes[k],
     PartEnd |-> k * rbs.bytes[k]]

\* the task of broken segment k: the check of ctx.Err(), f.ReadAt, the article
UpTask(k) ==
    /\ rbs.pc = "tasks"
    /\ k \in rbs.todo
    /\ IF rbs.perr # "" THEN rbs' = [rbs EXCEPT !.todo = @ \ {k}]
       ELSE IF ReadAtFails((k - 1) * rbs.bytes[k], rbs.bytes[k], rbs.fileSize)
            THEN rbs' = [rbs EXCEPT !.todo = @ \ {k}, !.perr = "failed to read segment"]
            ELSE rbs' = [rbs EXCEPT !.todo = @ \ {k}, !.articles = @ \cup {ArticleOf(k)}]

\* p.Wait()
UpWait ==
    /\ rbs.pc = "tasks"
    /\ rbs.todo = {}
    /\ rbs' = [rbs EXCEPT !.pc = "done"]

InitUpload ==
    /\ InitStore
    /\ boots = 1
    /\ sv = NoSupervisor
    /\ cf = NoConfig
    /\ dl = NoDownload
    /\ run = NoRun
    /\ wt = NoWatch
    /\ p2 = NoCall
    /\ \E bytes \in SegBytes, broken \in SUBSET SegNumbers : rbs = UploadStarted(bytes, broken)

NotUpload == UNCHANGED <<jobs, disk, last, mu, cpc, csel, handed, w, boots, sv, cf, dl, run, wt, p2>>

NextUpload ==
    \/ \E k \in SegNumbers : UpTask(k) /\ NotUpload
    \/ UpWait /\ NotUpload

SpecUpload == InitUpload /\ [][NextUpload]_vars

----------------------------------------------------------------------------
(* Claims about the queue *)

RowsOf(t, p) == {i \in Ids(t) : t[i].filepath = p}

\* the step is the return of the queue operation op: every step sets last,
\* but for the one that leaves a GetNextJob transaction open
Returns(op) == last'.op = op /\ ~\E c \in Callers : cpc[c] = "idle" /\ cpc'[c] = "selected"

\* C1: two GetNextJob calls that run concurrently never return the same row:
\* a pending row is returned by at most one GetNextJob call before it is set
\* back to pending.
C1_AtMostOneHandOut == \A i \in Ids(jobs) : Len(handed[i]) <= 1

\* each of the two callers was handed one of two rows by its GetNextJob call
C1_Witness ==
    /\ last.op = "GetNextJob"
    /\ Len(jobs) = 2
    /\ handed[1] = <<"c1">>
    /\ handed[2] = <<"c2">>
    /\ jobs[1].status = StatusProcessing
    /\ jobs[2].status = StatusProcessing

C3_AddJobIdempotent ==
    [][Returns("AddJob")
          => LET id == IF last'.id = 0 THEN Len(jobs') ELSE last'.id IN
             /\ last'.pre \in {StatusPending, StatusProcessing, StatusMoved} => jobs' = jobs
             /\ \A now2 \in Times :
                   AddJobTable(jobs', jobs'[id].filepath, last'.rel, now2) = jobs']_vars

\* AddJob ran on a row that was processing, with a relative path other than the stored one
C3_Witness ==
    /\ last.op = "AddJob"
    /\ last.pre = StatusProcessing
    /\ \E i \in Ids(jobs) :
          /\ jobs[i].status = StatusProcessing
          /\ jobs[i].filepath = <<SubDir, "a.nzb">>
          /\ jobs[i].relative_path = <<"a.nzb">>
          /\ jobs[i].created_at # 0

\* C4: UpdateJobStatus(id, failed, msg) adds exactly one to the retry_count of
\* row id, any other status leaves it unchanged, and no other row changes.
C4_RetryCountStep ==
    [][Returns("UpdateJobStatus")
          => LET id == last'.id IN
             /\ Len(jobs') = Len(jobs)
             /\ jobs'[id].retry_count =
                   jobs[id].retry_count + (IF jobs'[id].status = StatusFailed THEN 1 ELSE 0)
             /\ \A o \in Ids(jobs) : o # id => jobs'[o] = jobs[o]]_vars

\* UpdateJobStatus(failed) ran on a row that had already failed once, next to another row
C4_Witness ==
    /\ last.op = "UpdateJobStatus"
    /\ Len(jobs) = 2
    /\ \E i \in Ids(jobs) : jobs[i].status = StatusFailed /\ jobs[i].retry_count = 2

C6_GetNextJobOldestPending ==
    [][\A c \in Callers :
          /\ (cpc[c] = "selected" /\ cpc'[c] = "idle")
             => LET id == csel[c] IN
                /\ id \in Ids(jobs)
                /\ jobs[id].status = StatusPending
                /\ \A o \in Ids(jobs) :
                      jobs[o].status = StatusPending => jobs[id].created_at <= jobs[o].created_at
                /\ last'.op = "GetNextJob"
                /\ last'.ret = id
                /\ jobs' = [i \in Ids(jobs) |->
                              IF i = id THEN [jobs[i] EXCEPT !.status = StatusProcessing]
                              ELSE jobs[i]]
          /\ (Returns("GetNextJob") /\ cpc' = cpc)
             => /\ \A o \in Ids(jobs) : jobs[o].status # StatusPending
                /\ last'.ret = ErrNoRows
                /\ jobs' = jobs
          /\ (cpc[c] = "idle" /\ cpc'[c] = "selected")
             => /\ jobs' = jobs
                /\ \E o \in Ids(jobs) : jobs[o].status = StatusPending]_vars

\* GetNextJob returned the row inserted second, which is older than the pending row inserted first
C6_Witness ==
    /\ last.op = "GetNextJob"
    /\ last.ret = 2
    /\ jobs[2].status = StatusProcessing
    /\ jobs[1].status = StatusPending
    /\ jobs[2].created_at < jobs[1].created_at

\* GetNextJob found no pending row in a table that has rows
C6_WitnessNoRows ==
    /\ last.op = "GetNextJob"
    /\ last.ret = ErrNoRows
    /\ Len(jobs) = 2

\* C7 as stated: after MoveFailedFiles(maxRetries, brokenDir) every row that
\* was failed with retry_count >= maxRetries and whose file existed is moved
\* and its file is inside brokenDir; every other failed row and every row of
\* another status is unchanged and its file is where it was.
C7_SweepMovesEveryFile ==
    [][\A maxRetries \in 1..MaxRetryCount :
          MoveFailedFiles(maxRetries, BrokenFolder)
          => \A i \in Ids(jobs) :
                LET p == jobs[i].filepath IN
                /\ (i \in FailedOverMax(jobs, maxRetries) /\ disk[p] # NoFile)
                   => /\ jobs'[i].status = StatusMoved
                      /\ \E l \in Locations : l[1] = BrokenFolder /\ disk'[l] = disk[p]
                /\ i \notin FailedOverMax(jobs, maxRetries)
                   => /\ jobs'[i] = jobs[i]
                      /\ disk'[p] = disk[p]]_vars

\* C20: after any sequence of queue operations the table holds at most one
\* row per file path; no operation removes a row or changes a row's file
\* path; every row an operation inserts is pending with retry_count 0.
C20_RowsUniqueKeptAndBornPending ==
    [][/\ Len(jobs') >= Len(jobs)
       /\ \A i \in Ids(jobs) : jobs'[i].filepath = jobs[i].filepath
       /\ \A i \in Ids(jobs') \ Ids(jobs) :
             jobs'[i].status = StatusPending /\ jobs'[i].retry_count = 0
       /\ \A i, j \in Ids(jobs') : jobs'[i].filepath = jobs'[j].filepath => i = j]_vars

\* AddJob ran on a path whose row had been swept to moved, next to a row that
\* failed and was reset: still two rows
C20_Witness ==
    /\ last.op = "AddJob"
    /\ last.pre = StatusMoved
    /\ Len(jobs) = 2
    /\ \E i \in Ids(jobs) : jobs[i].status = StatusMoved
    /\ \E i \in Ids(jobs) : jobs[i].status = StatusPending /\ jobs[i].retry_count = 1

----------------------------------------------------------------------------
(* Claims about the worker *)

\* the worker leaves calculateJobOutputPath
LeavesPath == w.pc = "path" /\ w'.pc # "path"

\* the job is refused: no output path, no run of the pipeline, the row failed with a message
Refused ==
    /\ w'.pc = "tick"
    /\ w'.out = NoPath
    /\ ~w'.ran
    /\ jobs'[w.job].status = StatusFailed
    /\ jobs'[w.job].error_msg # NULL

AsksForJob ==
    \/ cpc["c1"] = "idle" /\ cpc'["c1"] = "selected"
    \/ last' # last /\ last'.op = "GetNextJob" /\ last'.ret = ErrNoRows

\* C9: for every job GetNextJob returned, the worker has updated the job's
\* status exactly once when it next calls GetNextJob: to completed when the
\* pipeline returned no error, to failed with the error's message when it
\* returned one (and to failed when no output path could be derived).
C9_OneStatusUpdatePerJob ==
    [][/\ Returns("UpdateJobStatus")
          => /\ last'.id = w.job
             /\ w'.upd = w.upd + 1
             /\ jobs'[w.job].status = w'.set[1]
             /\ jobs'[w.job].error_msg = NullString(w'.set[2])
       /\ w'.upd # w.upd /\ w'.job = w.job => Returns("UpdateJobStatus")
       /\ (AsksForJob /\ w.job # 0)
          => /\ w.upd = 1
             /\ w.ran /\ w.err = "" => w.set = <<StatusCompleted, "">>
             /\ w.ran /\ w.err # "" => w.set = <<StatusFailed, w.err>>
             /\ ~w.ran => w.set[1] = StatusFailed]_vars

\* the worker is back at its ticker after a failed upload, with the job
\* failed once under the pipeline's message, and another job is waiting
C9_Witness ==
    /\ w.pc = "tick"
    /\ w.job # 0
    /\ w.ran
    /\ w.err = "upload failed"
    /\ w.upd = 1
    /\ Len(jobs) = 2
    /\ jobs[w.job].status = StatusFailed
    /\ jobs[w.job].error_msg = "upload failed"
    /\ \E o \in Ids(jobs) : jobs[o].status = StatusPending

\* C10 as stated: when par2 exits with a code from 1 to 8 during a job, the
\* pipeline returns an error and the worker marks the job failed, adding one
\* to its retry_count.
C10_Par2FailureFailsJob ==
    [][(w.pc = "report" /\ w'.pc = "tick" /\ w.par2 \in 1..8)
          => /\ w.err # ""
             /\ jobs'[w.job].status = StatusFailed
             /\ jobs'[w.job].retry_count = jobs[w.job].retry_count + 1]_vars

\* C17 as stated: in watch mode no job's retry_count exceeds max_retries, and
\* a job that has failed max_retries times is not handed out by GetNextJob again.
C17_RetriesBounded ==
    \A i \in Ids(jobs) :
        /\ jobs[i].retry_count <= MaxRetries
        /\ jobs[i].status = StatusProcessing => jobs[i].retry_count < MaxRetries

----------------------------------------------------------------------------
(* Claims about one call of RepairNzb *)

\* message-ids of the segments of par2 files
ParIds == {"p1"}

\* the call has asked for no article, run no par2, posted nothing, written nothing
NothingDone(r) ==
    /\ r.bodies = {}
    /\ r.par2runs = 0
    /\ r.posts = <<>>
    /\ r.out = NoManifest

\* C12: for a manifest without par2 files, or with par2 files only, the call
\* returns nil from the split, having fetched no article, run no par2
\* executor, posted nothing and written no output manifest.
C12_NoPar2OrOnlyPar2ReturnsAtOnce ==
    (run.pc # "none" /\ (parFiles(run.in) = <<>> \/ restFiles(run.in) = <<>>)) =>
        /\ run.pc \in {"open", "split", "done"}
        /\ NothingDone(run)
        /\ (run.pc = "done" /\ run.at = "split") => run.ret = ""

C12_Witness ==
    /\ run.pc = "done"
    /\ run.at = "split"
    /\ run.ret = ""
    /\ parFiles(run.in) = <<>>
    /\ restFiles(run.in) # <<>>

\* C13: when the map of broken segments is empty at the test that follows the
\* download of the payload files, the call returns nil there, and it has
\* fetched no par2 article, run no par2 executor, posted nothing and written
\* no output manifest.
C13_EmptyBrokenMapReturnsNil ==
    [][(/\ run.pc = "downloaded"
        /\ run'.pc # "downloaded"
        /\ ~run.ctx
        /\ run.broken = {})
       => (/\ run'.pc = "done"
           /\ run'.ret = ""
           /\ run'.bodies \cap ParIds = {}
           /\ run'.par2runs = 0
           /\ run'.posts = <<>>
           /\ run'.out = NoManifest)]_vars

C13_Witness ==
    /\ run.pc = "done"
    /\ run.at = "downloaded"
    /\ ~run.ctx
    /\ run.broken = {}
    /\ run.ch = <<>>
    /\ run.ret = ""
    /\ run.bodies = {"d1", "d2"}

\* the segments of every file are numbered 1..N in the order of the list, which
\* Segments[s.segment.Number-1] takes for granted
Numbered(nzb) ==
    \A f \in DOMAIN nzb : \A k \in DOMAIN nzb[f].segs : nzb[f].segs[k].number = k

\* the pool has an error that a call of uploadPool.Post returned
PostFailed == run.pc # "none" /\ run.gerr \in {"post failed", "context canceled"}

\* C14: once a Post of a broken segment has failed, no further Post of that
\* file is started, the call returns that error, and no output manifest is
\* written.
C14_PostFailureCancelsAndReturnsError ==
    /\ []((PostFailed /\ Numbered(run.in)) =>
            /\ run.pc \in {"posting", "done"}
            /\ run.out = NoManifest
            /\ run.pc = "done" => run.ret = run.gerr)
    /\ [][(PostFailed /\ Numbered(run.in)) => run'.posts = run.posts]_vars

C14_Witness ==
    /\ run.pc = "done"
    /\ Numbered(run.in)
    /\ run.ret = "post failed"
    /\ ~run.ctx
    /\ Cardinality(run.broken) = 2
    /\ Len(run.posts) = 1
    /\ run.out = NoManifest

\* C15: a call whose context was cancelled while it ran returns nil: it does
\* not return the error of the cancellation.
C15_CancelReturnsNil ==
    (run.pc = "done" /\ run.ctx /\ Numbered(run.in)) => run.ret # "context canceled"

\* the segments of the manifest that the servers do not have
BrokenOf(nzb, missing) ==
    {b \in UNION {{f} \X DOMAIN nzb[f].segs : f \in DOMAIN nzb} :
        nzb[b[1]].segs[b[2]].id \in missing}

\* the call has posted every broken segment and written the output manifest
Repaired ==
    /\ run.pc = "done"
    /\ run.out # NoManifest
    /\ Numbered(run.in)
    /\ BrokenOf(run.in, run.missing) # {}
    /\ BrokenOf(run.in, run.missing) \subseteq {run.posts[i] : i \in DOMAIN run.posts}

\* C11: when every broken segment was posted and the output manifest written,
\* there is exactly one Post per broken segment, the output manifest has the
\* files and segments of the input, each broken segment carries a generated
\* message-id other than its original id, and every other segment is as in
\* the input.
C11_OnePostAndOnlyBrokenIdsReplaced ==
    Repaired =>
        /\ Len(run.posts) = Cardinality(BrokenOf(run.in, run.missing))
        /\ DOMAIN run.out = DOMAIN run.in
        /\ \A f \in DOMAIN run.in :
              /\ run.out[f].name = run.in[f].name
              /\ DOMAIN run.out[f].segs = DOMAIN run.in[f].segs
              /\ \A k \in DOMAIN run.in[f].segs :
                    IF <<f, k>> \in BrokenOf(run.in, run.missing)
                    THEN /\ run.out[f].segs[k].number = run.in[f].segs[k].number
                         /\ run.out[f].segs[k].id \in GenIds
                         /\ run.out[f].segs[k].id # run.in[f].segs[k].id
                    ELSE run.out[f].segs[k] = run.in[f].segs[k]

C11_Witness ==
    /\ Repaired
    /\ run.ret = ""
    /\ run.missing = {"d1"}
    /\ run.posts = <<<<1, 1>>>>
    /\ run.out[1].segs[1].id # "d1"
    /\ run.out[1].segs[2].id = "d2"

----------------------------------------------------------------------------
(* Claims about the par2 driver *)

\* the directory holds a .par2 file: a name that ends in .par2, in any case
HoldsPar2File(dir) == \E n \in dir : IsPar2Name(n)

\* C19: a call on a directory without a .par2 file returns nil and has not
\* started the binary; a run that exits 0 returns nil; a run that exits with
\* another code returns an error with the code, the name of the code for 1..8
\* and "unknown code" otherwise, and the stderr collected.
C19_Par2RepairOutcomes ==
    (p2.pc = "done" /\ p2.ret.kind \notin
        {"error finding .par2 file", "failed to get pipe", "failed to run par2 command"}) =>
        /\ ~HoldsPar2File(p2.dir) => (p2.ret = Nil /\ ~p2.started)
        /\ (p2.started /\ p2.code = 0) => p2.ret = Nil
        /\ (p2.started /\ p2.code # 0) =>
              /\ p2.ret.code = p2.code
              /\ p2.ret.stderr \in Prefixes(p2.written)
              /\ IF p2.code \in 1..8
                 THEN p2.ret.kind = "par2 exited with code" /\ p2.ret.name = par2ExitCodes[p2.code]
                 ELSE p2.ret.kind = "par2 exited with unknown code"

----------------------------------------------------------------------------
(* Claims about the watcher *)

\* C18 (the part on what is enqueued): every path the watcher has passed to
\* AddJob is a regular file whose name ends in .nzb in any case, passed with
\* its path relative to the watch root.
C18_OnlyRegularNzbFilesEnqueued ==
    wt.pc # "none" =>
        \A a \in wt.added :
            /\ wt.fs[a[1]] = "regular"
            /\ HasNzbExt(a[1])
            /\ a[2] = Rel(a[1])

----------------------------------------------------------------------------
(* Claims about the configuration *)

RECURSIVE SumOfMaxConnections(_)
\* the sum the claim takes: each provider's max_connections, 10 for an omitted one
SumOfMaxConnections(provs) ==
    IF provs = <<>> THEN 0
    ELSE (IF provs[1].MaxConnections = 0 THEN 10 ELSE provs[1].MaxConnections)
         + SumOfMaxConnections(Tail(provs))

\* the worker count the claim gives for a file that omits it
WorkersFor(provs) == IF provs = <<>> THEN 10 ELSE SumOfMaxConnections(provs)

\* C21: a loaded configuration whose file omitted download_workers (or
\* upload_workers) has the sum of the max_connections of the providers of
\* that side, 10 for each omitted one, and 10 when the side has no provider;
\* the loaded worker counts are never 0.
C21_OmittedWorkersDefault ==
    cf.pc = "loaded" =>
        /\ cf.file.DownloadWorkers = 0 =>
              cf.cfg.DownloadWorkers = WorkersFor(cf.file.DownloadProviders)
        /\ cf.file.UploadWorkers = 0 =>
              cf.cfg.UploadWorkers = WorkersFor(cf.file.UploadProviders)
        /\ cf.cfg.DownloadWorkers # 0
        /\ cf.cfg.UploadWorkers # 0

----------------------------------------------------------------------------
(* Claims about downloadWorker and the listener *)

\* the numbers of the segments in a sequence of events
Numbers(events) == {events[j].number : j \in DOMAIN events}

\* RepairNzb has returned to its caller: the channel is closed and the
\* listener has ended
Returned == dl.closed /\ ~dl.lis

\* C22: the listener ends only once the channel is closed, and when RepairNzb
\* has returned every event that a task sent is in the map.
C22_ListenerLosesNoEvent ==
    /\ [][(dl.lis /\ ~dl'.lis) => dl.closed]_vars
    /\ [](Returned => {dl.sent[j] : j \in DOMAIN dl.sent} \subseteq Numbers(dl.broken))

\* C24: when the channel is closed no segment task of downloadWorker is still
\* running, and no task sends on the closed channel.
C24_NoTaskLeftAtClose ==
    dl.closed => (Active = {} /\ ~dl.panic)

\* C25: the call of downloadWorker returns and RepairNzb returns after it.
C25_AlwaysReturns == <>Returned

\* C26: a call in which a fetch failed with an error other than not-found and
\* cancellation returns an error.
C26_FetchErrorReturned ==
    (dl.pc = "returned" /\ \E k \in SegNumbers : dl.got[k] = "error") =>
        dl.ret \notin {"", "running"}

\* how many events a task sent for segment k
SentFor(k) == Cardinality({j \in DOMAIN dl.sent : dl.sent[j] = k})

\* nothing but not-found results disturbs the call: the context is not
\* cancelled, and no fetch or write has failed otherwise
OnlyNotFound ==
    /\ ~dl.ctx
    /\ \A k \in SegNumbers : dl.got[k] \in {"none", "ok", "not found"}

\* C27: in a call that only not-found results disturb, a not-found result
\* leaves the pool without error and the loop uncancelled, its task sends
\* exactly one event for the segment, and the call returns nil after every
\* segment was fetched and every segment found was written.
C27_NotFoundSendsOneEventAndGoesOn ==
    OnlyNotFound =>
        /\ dl.perr = ""
        /\ ~dl.c
        /\ \A k \in SegNumbers :
              /\ SentFor(k) <= 1
              /\ (dl.got[k] = "not found" /\ dl.task[k] = "done") => SentFor(k) = 1
              /\ dl.got[k] # "not found" => SentFor(k) = 0
        /\ (dl.pc = "returned" /\ dl.i > 1) =>
              /\ dl.ret = ""
              /\ \A k \in SegNumbers : dl.task[k] = "done" /\ dl.got[k] # "none"

C27_Witness ==
    /\ dl.pc = "returned"
    /\ OnlyNotFound
    /\ dl.got = <<"ok", "not found", "ok">>
    /\ dl.sent = <<2>>
    /\ dl.ret = ""
    /\ \E pos \in Positions : dl.file[pos] = 3

\* the offset of segment k in the file: the body lengths before it
RECURSIVE OffsetOf(_, _)
OffsetOf(lens, k) == IF k = 1 THEN 0 ELSE OffsetOf(lens, k - 1) + lens[k - 1]

\* C28: when the tasks of the call have ended, the bytes of every segment that
\* was downloaded are at that segment's offset in the file, whatever the order
\* of the writes and the body lengths.
C28_SegmentsAtTheirOffsets ==
    (dl.pc = "returned" /\ Active = {}) =>
        \A k \in SegNumbers :
            dl.got[k] = "ok" =>
                \A pos \in OffsetOf(dl.lens, k)..(OffsetOf(dl.lens, k) + dl.lens[k] - 1) :
                    dl.file[pos] = k

\* the body lengths of the segments downloaded in this call
Observed == {dl.lens[k] : k \in {j \in SegNumbers : dl.got[j] = "ok"}}

\* buff := make([]byte, s.segment.Bytes) of the upload task
ReadSize(event) == event.bytes

\* C29: once a segment of the file was downloaded, every broken segment of the
\* file in the map is read for the upload with the observed body length.
C29_BrokenReadWithObservedSize ==
    (dl.pc # "none" /\ Observed # {}) =>
        \A j \in DOMAIN dl.broken : ReadSize(dl.broken[j]) \in Observed

----------------------------------------------------------------------------
(* Claims about the call as the supervisor sees it *)

\* C23: when RepairNzb tests whether the map of broken segments is empty, no
\* event that a download task sent is still in the channel: the map holds all
\* of them.
C23_MapCompleteAtTest ==
    [][(run.pc = "downloaded" /\ run'.pc # "downloaded" /\ ~run.ctx)
          => run.ch = <<>>]_vars

\* the call returned nil on one of its checks of ctx.Err() around the downloads
CutShort ==
    /\ run.pc = "done"
    /\ run.ctx
    /\ run.at \in {"download", "downloaded", "par2 files"}

\* C30: a call that was cut short by the cancellation of its context, or in
\* which the download of a payload file failed with an error, is not reported
\* to the queue as completed.
C30_CompletedOnlyAfterFullRun ==
    (run.pc = "done" /\ (CutShort \/ run.dlerr)) =>
        ReportArgs(run.ret)[1] # StatusCompleted

\* C31: when the call writes the output manifest, every segment that is in the
\* map of broken segments was posted and carries a new id in that manifest.
C31_OutputOnlyAfterAllPosted ==
    [][(run.pc = "write" /\ run'.out # NoManifest /\ Numbered(run.in)) =>
          \A b \in run.broken :
              /\ b \in {run.posts[i] : i \in DOMAIN run.posts}
              /\ run'.out[b[1]].segs[b[2]].id # run.in[b[1]].segs[b[2]].id]_vars

\* C32: when the call has returned after it created its working directory, and
\* os.RemoveAll did not fail, the directory is gone, whatever the return path.
C32_WorkingDirRemovedOnReturn ==
    (run.pc = "done" /\ run.tmp \notin {"none", "remove failed"}) =>
        run.tmp = "removed"

C32_Witness ==
    /\ run.pc = "done"
    /\ run.at = "posting"
    /\ run.ret = "post failed"
    /\ run.tmp = "removed"

----------------------------------------------------------------------------
(* Claims about the shutdown of RunWatcher *)

\* C33: the queue is closed only when the watcher task and the worker task
\* have exited and the download pool and the upload pool are closed.
C33_QueueClosedLast ==
    (sv.pc # "none" /\ sv.queue = "closed" /\ sv.watcher # "new") =>
        /\ sv.watcher = "exited"
        /\ sv.worker = "exited"
        /\ sv.download = "closed"
        /\ sv.upload = "closed"

----------------------------------------------------------------------------
(* Claims about the queue under its callers *)

\* C34: while a caller holds q.mu, the jobs table is changed by that caller's
\* own operation only: no other operation changes it.
C34_MutationsUnderMutex ==
    [][(mu # NoOne /\ jobs' # jobs) => last'.op = "GetNextJob"]_vars

\* C35: a row that is pending is later handed out by GetNextJob.
C35_PendingEventuallyHandedOut ==
    \A i \in 1..Cardinality(Paths) :
        (i \in Ids(jobs) /\ jobs[i].status = StatusPending)
            ~> (last.op = "GetNextJob" /\ last.ret = i)

\* the rows that are processing
Processing(t) == {i \in Ids(t) : t[i].status = StatusProcessing}

Edges ==
    {<<StatusPending, StatusProcessing>>, <<StatusProcessing, StatusCompleted>>,
     <<StatusProcessing, StatusFailed>>, <<StatusProcessing, StatusPending>>,
     <<StatusFailed, StatusPending>>, <<StatusCompleted, StatusPending>>,
     <<StatusFailed, StatusMoved>>}

\* one step of the table: rows stay, a new row is pending, a status changes
\* along an edge, processing to pending is the cleanup's, a moved row is kept
FollowsEdges ==
    /\ \A i \in Ids(jobs') : i \notin Ids(jobs) => jobs'[i].status = StatusPending
    /\ \A i \in Ids(jobs) :
          /\ i \in Ids(jobs')
          /\ jobs'[i].status # jobs[i].status =>
                <<jobs[i].status, jobs'[i].status>> \in Edges
          /\ (jobs[i].status = StatusProcessing /\ jobs'[i].status = StatusPending) =>
                last'.op = "CleanupProcessingJobs"
          /\ jobs[i].status = StatusMoved => jobs'[i] = jobs[i]

\* C37: in watch mode a new row is pending, every change of a row's status
\* is one of the listed edges, processing to pending happens in the startup
\* cleanup only, and a row that is moved is never changed.
C37_StatusFollowsEdges == [][FollowsEdges]_vars

\* AddJob was called for the file of a moved row, and the row is still moved
C37_Witness ==
    /\ last.op = "AddJob"
    /\ last.id # 0
    /\ last.pre = StatusMoved
    /\ jobs[last.id].status = StatusMoved
    /\ boots = 2
    /\ \E i \in Ids(jobs) : jobs[i].status = StatusCompleted

----------------------------------------------------------------------------
(* Claims about the sweep *)

\* C38: after MoveFailedFiles has returned, a row is moved exactly when its
\* file has left its path for the broken folder.
C38_MovedIffRenamed ==
    last.op = "MoveFailedFiles" =>
        \A i \in Ids(jobs) :
            jobs[i].status = StatusMoved <=> disk[jobs[i].filepath] = NoFile

\* C39: no sweep loses a file: every file that was on disk is still at its
\* path or in the broken folder.
C39_NoFileLost ==
    \A p \in Paths : \E l \in Locations : disk[l] = p

----------------------------------------------------------------------------
(* Claims about the ranges read for the upload *)

\* the positions of the file that the article's body was read from
RangeOf(a) == a.PartBegin..(a.PartEnd - 1)

\* C40: the ranges read for distinct broken segments of one file are pairwise
\* disjoint and inside the file, and no article has a part number above its
\* part total.
C40_ReadRangesDisjointAndInside ==
    rbs.pc # "none" =>
        \A a \in rbs.articles :
            /\ a.PartEnd <= rbs.fileSize
            /\ a.PartNum <= a.PartTotal
            /\ \A b \in rbs.articles :
                  a.PartNum # b.PartNum => RangeOf(a) \cap RangeOf(b) = {}


============================================================================
